---- MODULE Spec2Model ----
(***************************************************************************)
(* Symbolic integrators of ngsolve (fem/symbolicintegrator.cpp): the       *)
(* proxy / ProxyUserData evaluation protocol and the three integrators     *)
(* SymbolicLinearFormIntegrator, SymbolicBilinearFormIntegrator and        *)
(* SymbolicEnergy.                                                         *)
(*                                                                         *)
(* Numbers of type double are modelled as exact rationals <<num, den>>     *)
(* (den > 0, lowest terms); floating point rounding is not modelled.       *)
(* Vectors and matrices are functions over 0..n-1, as the C++ indices.     *)
(***************************************************************************)
EXTENDS Integers, Sequences, FiniteSets, TLC

(***************************************************************************)
(* Bounds of the model                                                     *)
(***************************************************************************)
\* largest size of the quadrature rules the small rules are drawn from
MaxPoints == 2
\* quadrature weights are 1..MaxWeight
MaxWeight == 2
\* dof vectors are MkElx(el, d), d in 0..MaxDofVal
MaxDofVal == 1
\* calls made on the integrator in one behaviour
MaxCalls == 2
\* the largest number of full blocks of BS points in a rule
MaxBlocks == 2

\* the largest Dim() and BlockDim() of an evaluator handed to a ProxyFunction
MaxDim == 12
MaxBlockDim == 8

\* the largest height, width and inner length a generated kernel is run with
MaxKernelDim == 2

(***************************************************************************)
(* Exact arithmetic standing for double                                    *)
(***************************************************************************)
Abs(n) == IF n < 0 THEN -n ELSE n

RECURSIVE GCD(_, _)
GCD(a, b) == IF b = 0 THEN a ELSE GCD(b, a % b)

Rat(n, d) ==
  LET s == IF d < 0 THEN -1 ELSE 1
      g == GCD(Abs(n), Abs(d))
  IN  <<(s * n) \div g, (s * d) \div g>>

RInt(n) == <<n, 1>>
RZero == <<0, 1>>
ROne == <<1, 1>>
RHalf == <<1, 2>>
RAdd(a, b) == IF a[2] = 1 /\ b[2] = 1 THEN <<a[1] + b[1], 1>>
              ELSE Rat(a[1] * b[2] + b[1] * a[2], a[2] * b[2])
RNeg(a) == <<-a[1], a[2]>>
RSub(a, b) == RAdd(a, RNeg(b))
RMul(a, b) == IF a[2] = 1 /\ b[2] = 1 THEN <<a[1] * b[1], 1>>
              ELSE Rat(a[1] * b[1], a[2] * b[2])

\* sum of f[i] over i in lo..hi, in increasing order of i
RECURSIVE RSum(_, _, _)
RSum(f, lo, hi) ==
  IF hi < lo THEN RZero
  ELSE IF lo = hi THEN RAdd(RZero, f[lo])
  ELSE RAdd(RSum(f, lo, (lo + hi) \div 2), RSum(f, ((lo + hi) \div 2) + 1, hi))

\* A vector, matrix or tensor in memory: its entries are computed once, when
\* it is written, and read from then on.
Stored(v) == IF v = v THEN v ELSE v
\* v computed from operands that are in memory: the operands are evaluated
\* before v is
From(operands, v) == IF operands = operands THEN Stored(v) ELSE v

\* The caller's buffers and the tensors a call leaves behind hold numbers:
\* a vector, a matrix, a tensor of three axes, a list of such tensors
FlatVector(v) == v @@ v
FlatMatrix(m) == FlatVector([i \in DOMAIN m |-> FlatVector(m[i])])
Tensor3(t) == FlatVector([i \in DOMAIN t |-> FlatMatrix(t[i])])
Tensors(ts) == FlatVector([n \in DOMAIN ts |-> Tensor3(ts[n])])

ZeroVec(n) == Stored([i \in 0..(n - 1) |-> RZero])
OnesVec(n) == Stored([i \in 0..(n - 1) |-> ROne])
ZeroMat(h, w) == Stored([i \in 0..(h - 1) |-> [j \in 0..(w - 1) |-> RZero]])
VecAdd(a, b) == From(<<a, b>>, [i \in DOMAIN a |-> RAdd(a[i], b[i])])
MatAdd_Assign(a, b) == b
MatAdd(a, b) == From(<<a, b>>, [i \in DOMAIN a |-> [j \in DOMAIN a[i] |-> RAdd(a[i][j], b[i][j])]])
Len0(f) == Cardinality(DOMAIN f)

(***************************************************************************)
(* Proxies and their differential operators.  The expression tree owns     *)
(* four ProxyFunction objects; a proxy is identified by its address,       *)
(* modelled by its name.  NullPtr stands for nullptr.                      *)
(***************************************************************************)
NullPtr == "nullptr"
Proxies == {"u1", "u2", "v1", "v2"}

\* ProxyFunction::testfunction / IsTestFunction()
IsTestFunction(p) == p \in {"v1", "v2"}

\* ProxyFunction::evaluator / Evaluator(): the bound DifferentialOperator
Evaluator(p) == IF p \in {"u1", "v1"} THEN "id" ELSE "vec"

\* DifferentialOperator::Dim()
DiffOpDim(op) == IF op = "id" THEN 1 ELSE 2

\* ProxyFunction::Dimensions(): the tensor shape of the proxy, from the
\* evaluator's Dim() and BlockDim(); dim/blockdim is the division of two ints
Dimensions_Flat(dim, blockdim) == <<dim>>

Dimensions(dim, blockdim) ==
  IF blockdim = 1 THEN <<dim>> ELSE <<dim \div blockdim, blockdim>>

\* ProxyFunction::Dimension(): the proxy's component count
Dimension(p) == DiffOpDim(Evaluator(p))

\* The finite elements: "one" has a single dof, "cmp" is a compound element
\* of three dofs whose operators use overlapping dof ranges.
Elements == {"one", "cmp"}
NDof(fel) == IF fel = "one" THEN 1 ELSE 3

\* DifferentialOperator::UsedDofs(fel): the half-open range <<first, next>>
UsedDofs(op, fel) ==
  IF fel = "one" THEN <<0, 1>>
  ELSE IF op = "id" THEN <<0, 2>> ELSE <<1, 3>>

InRange(j, r) == r[1] <= j /\ j < r[2]

\* the operator's basis value of component c for its local dof jj at a
\* point of coordinate x; the "id" operator on "one" is the identity
ShapeValue(op, c, jj, x) ==
  IF op = "id" THEN (IF jj = 0 THEN 1 ELSE x + 1)
  ELSE (IF c = 0 THEN jj + 1 ELSE x + jj)

CalcMatrix_Unzeroed(op, fel, mip) == Stored(
  [c \in 0..(DiffOpDim(op) - 1) |->
     [j \in 0..(NDof(fel) - 1) |->
        IF InRange(j, UsedDofs(op, fel))
        THEN RInt(ShapeValue(op, c, j - UsedDofs(op, fel)[1], mip.x))
        ELSE ROne]])

\* DifferentialOperator::CalcMatrix(fel, mip, mat): mat is Dim x ndof and is
\* zero outside the operator's used dofs
CalcMatrix(op, fel, mip) == Stored(
  [c \in 0..(DiffOpDim(op) - 1) |->
     [j \in 0..(NDof(fel) - 1) |->
        IF InRange(j, UsedDofs(op, fel))
        THEN RInt(ShapeValue(op, c, j - UsedDofs(op, fel)[1], mip.x))
        ELSE RZero]])

\* DifferentialOperator::Apply(fel, mip, elx, result): result = B(mip) * elx
Apply(op, fel, mip, elx) == From(<<elx>>,
  LET bmat == CalcMatrix(op, fel, mip)
  IN  [c \in 0..(DiffOpDim(op) - 1) |->
         RSum([j \in 0..(NDof(fel) - 1) |-> RMul(bmat[c][j], elx[j])],
              0, NDof(fel) - 1)])

\* DifferentialOperator::Apply over a whole rule: one row per point
ApplyRule(op, fel, mir, elx) == From(<<mir, elx>>,
  [i \in DOMAIN mir |-> Apply(op, fel, mir[i], elx)])

\* DifferentialOperator::ApplyTrans(fel, mir, values, elvec):
\* elvec = sum over the points of Trans(B(mir[i])) * values.Row(i)
ApplyTrans(op, fel, mir, values) == From(<<mir, values>>,
  [j \in 0..(NDof(fel) - 1) |->
     RSum([i \in DOMAIN mir |->
             RSum([c \in 0..(DiffOpDim(op) - 1) |->
                     RMul(CalcMatrix(op, fel, mir[i])[c][j], values[i][c])],
                  0, DiffOpDim(op) - 1)],
          0, Len0(mir) - 1)])

(***************************************************************************)
(* class ProxyUserData.  A pointer to it is a sequence of length at most   *)
(* one: << >> is the null pointer, <<ud>> points to the object ud.         *)
(* Members without an initialiser are indeterminate until assigned.        *)
(***************************************************************************)
Indeterminate == "indeterminate"

NewProxyUserData ==
  [testfunction |-> NullPtr, test_comp |-> Indeterminate,
   trialfunction |-> NullPtr, trial_comp |-> Indeterminate,
   fel |-> NullPtr, elx |-> Indeterminate,
   remember |-> << >>, lh |-> Indeterminate]

\* one-hot column marks: vec with entry comp set to 1
SetEntry(vec, comp) == From(<<vec>>, [e \in DOMAIN vec |-> IF e = comp THEN ROne ELSE vec[e]])
\* mat.Col(comp) = 1
SetCol(mat, comp) == From(<<mat>>, [row \in DOMAIN mat |-> SetEntry(mat[row], comp)])

(***************************************************************************)
(* ProxyFunction::Evaluate (const BaseMappedIntegrationPoint &, result)    *)
(***************************************************************************)
ProxyEvaluate_SeedFirst(this, udp, mip) == Stored(
  IF udp = << >> THEN [thrown |-> TRUE, result |-> << >>]
  ELSE LET ud == udp[1]
           r0 == ZeroVec(Dimension(this))
           r1 == IF ud.testfunction = this THEN SetEntry(r0, ud.test_comp) ELSE r0
           r2 == IF ud.trialfunction = this THEN SetEntry(r1, ud.trial_comp) ELSE r1
       IN  IF ud.testfunction = this \/ ud.trialfunction = this
           THEN [thrown |-> FALSE, result |-> r2]
           ELSE IF ~IsTestFunction(this) /\ ud.fel # NullPtr
           THEN [thrown |-> FALSE,
                 result |-> Apply(Evaluator(this), ud.fel, mip, ud.elx)]
           ELSE [thrown |-> FALSE, result |-> r0])

ProxyEvaluate_ThrowUnseeded(this, udp, mip) == Stored(
  IF udp = << >> THEN [thrown |-> TRUE, result |-> << >>]
  ELSE LET ud == udp[1]
           r0 == ZeroVec(Dimension(this))
           r1 == IF ud.testfunction = this THEN SetEntry(r0, ud.test_comp) ELSE r0
           r2 == IF ud.trialfunction = this THEN SetEntry(r1, ud.trial_comp) ELSE r1
       IN  IF ~IsTestFunction(this) /\ ud.fel # NullPtr
           THEN [thrown |-> FALSE,
                 result |-> Apply(Evaluator(this), ud.fel, mip, ud.elx)]
           ELSE IF ud.testfunction # this /\ ud.trialfunction # this
           THEN [thrown |-> TRUE, result |-> << >>]
           ELSE [thrown |-> FALSE, result |-> r2])

ProxyEvaluate(this, udp, mip) == Stored(
  IF udp = << >>
  THEN [thrown |-> TRUE, result |-> << >>]
  ELSE LET ud == udp[1]
           r0 == ZeroVec(Dimension(this))
           r1 == IF ud.testfunction = this THEN SetEntry(r0, ud.test_comp) ELSE r0
           r2 == IF ud.trialfunction = this THEN SetEntry(r1, ud.trial_comp) ELSE r1
       IN  IF ~IsTestFunction(this) /\ ud.fel # NullPtr
           THEN [thrown |-> FALSE,
                 result |-> Apply(Evaluator(this), ud.fel, mip, ud.elx)]
           ELSE [thrown |-> FALSE, result |-> r2])

(***************************************************************************)
(* ProxyFunction::EvaluateDeriv (mir, result, deriv)                       *)
(***************************************************************************)
ProxyEvaluateDeriv(this, udp, mir) == Stored(
  IF udp = << >>
  THEN [thrown |-> TRUE, result |-> << >>, deriv |-> << >>]
  ELSE LET ud == udp[1]
           zero == [i \in DOMAIN mir |-> ZeroVec(Dimension(this))]
           r1 == IF ~IsTestFunction(this) /\ ud.fel # NullPtr
                 THEN ApplyRule(Evaluator(this), ud.fel, mir, ud.elx)
                 ELSE zero
           r2 == IF ud.testfunction = this THEN SetCol(r1, ud.test_comp) ELSE r1
           d1 == IF ud.trialfunction = this THEN SetCol(zero, ud.trial_comp) ELSE zero
       IN  [thrown |-> FALSE, result |-> r2, deriv |-> d1])

(***************************************************************************)
(* ProxyFunction::EvaluateDDeriv (mir, result, deriv, dderiv)              *)
(***************************************************************************)
ProxyEvaluateDDeriv_MarksInDDeriv(this, udp, mir) == Stored(
  IF udp = << >>
  THEN [thrown |-> TRUE, result |-> << >>, deriv |-> << >>, dderiv |-> << >>]
  ELSE LET ud == udp[1]
           zero == [i \in DOMAIN mir |-> ZeroVec(Dimension(this))]
           r1 == IF ~IsTestFunction(this) /\ ud.fel # NullPtr
                 THEN IF this \in DOMAIN ud.remember
                      THEN ud.remember[this]
                      ELSE ApplyRule(Evaluator(this), ud.fel, mir, ud.elx)
                 ELSE zero
           d1 == IF ud.testfunction = this THEN SetCol(zero, ud.test_comp) ELSE zero
           d2 == IF ud.trialfunction = this THEN SetCol(d1, ud.trial_comp) ELSE d1
       IN  [thrown |-> FALSE, result |-> r1, deriv |-> zero, dderiv |-> d2])

ProxyEvaluateDDeriv(this, udp, mir) == Stored(
  IF udp = << >>
  THEN [thrown |-> TRUE, result |-> << >>, deriv |-> << >>, dderiv |-> << >>]
  ELSE LET ud == udp[1]
           zero == [i \in DOMAIN mir |-> ZeroVec(Dimension(this))]
           r1 == IF ~IsTestFunction(this) /\ ud.fel # NullPtr
                 THEN IF this \in DOMAIN ud.remember
                      THEN ud.remember[this]
                      ELSE ApplyRule(Evaluator(this), ud.fel, mir, ud.elx)
                 ELSE zero
           d1 == IF ud.testfunction = this THEN SetCol(zero, ud.test_comp) ELSE zero
           d2 == IF ud.trialfunction = this THEN SetCol(d1, ud.trial_comp) ELSE d1
       IN  [thrown |-> FALSE, result |-> r1, deriv |-> d2, dderiv |-> zero])

(***************************************************************************)
(* The expression tree (CoefficientFunction).  The composite nodes belong  *)
(* to the expression subsystem; only the proxy leaves are defined in       *)
(* symbolicintegrator.cpp.  A node is a record with tag t:                 *)
(*   "const" c        a constant                                           *)
(*   "coef"           a point-wise coefficient, x + 1, that is defined     *)
(*                    only at points of coordinate 0 and raises an         *)
(*                    exception when evaluated anywhere else               *)
(*   "proxy" p        the (vector valued) proxy p                          *)
(*   "comp" a k       component k of the proxy node a                      *)
(*   "add" a b, "mul" a b                                                  *)
(***************************************************************************)
Const(c) == [t |-> "const", c |-> c]
Coef == [t |-> "coef"]
Prx(p) == [t |-> "proxy", p |-> p]
Comp(p, k) == [t |-> "comp", a |-> Prx(p), k |-> k]
Add(a, b) == [t |-> "add", a |-> a, b |-> b]
Mul(a, b) == [t |-> "mul", a |-> a, b |-> b]

\* the scalar components of the trial proxies, in a fixed order
TrialComps == << <<"u1", 0>>, <<"u2", 0>>, <<"u2", 1>> >>
NComps == Len(TrialComps)
ZComp(i) == Comp(TrialComps[i][1], TrialComps[i][2])

\* the constant matrices A of the quadratic energy densities u^T A u: a
\* symmetric one and one that is not symmetric
QuadMats ==
  << << <<2, 1, 0>>, <<1, 3, 1>>, <<0, 1, 1>> >>,
     << <<1, 2, 0>>, <<0, 0, 3>>, <<1, 0, 2>> >> >>

\* the sum of terms[lo..hi] as a balanced tree of binary additions
RECURSIVE SumTree(_, _, _)
SumTree(terms, lo, hi) ==
  IF lo = hi THEN terms[lo]
  ELSE Add(SumTree(terms, lo, (lo + hi) \div 2),
           SumTree(terms, ((lo + hi) \div 2) + 1, hi))

\* sum of A[i][j] * z_i * z_j over the i, j with A[i][j] # 0
QuadTree(A) ==
  LET Row(n) == ((n - 1) \div NComps) + 1
      Col(n) == ((n - 1) % NComps) + 1
      nz == SelectSeq([n \in 1..(NComps * NComps) |-> n],
                      LAMBDA n : A[Row(n)][Col(n)] # 0)
  IN  SumTree([m \in 1..Len(nz) |->
                 Mul(Const(RInt(A[Row(nz[m])][Col(nz[m])])),
                     Mul(ZComp(Row(nz[m])), ZComp(Col(nz[m]))))],
              1, Len(nz))

\* the expressions integrators are built from: <<name, parameter>>
Exprs ==
  {<<"uv", 0>>, <<"mix", 0>>, <<"lin", 0>>, <<"half_u2", 0>>,
   <<"vecroot", 0>>, <<"coefuv", 0>>}
  \cup {<<"quad", a>> : a \in 1..Len(QuadMats)}

\* The two summands of the integrands that are built as cf1 + cf2
SumParts ==
  << <<(<<"uv", 0>>), (<<"mix", 0>>)>>,
     <<(<<"mix", 0>>), (<<"sym", 0>>)>> >>

BilinearExprs ==
  {<<"uv", 0>>, <<"mix", 0>>, <<"sym", 0>>, <<"coefuv", 0>>}
  \cup {<<"sum", n>> : n \in 1..Len(SumParts)}

RECURSIVE Tree(_)
Tree(cf) ==
  CASE cf[1] = "uv" -> Mul(Comp("u1", 0), Comp("v1", 0))
    [] cf[1] = "sym" ->
         Add(Add(Mul(Comp("u1", 0), Comp("v1", 0)),
                 Mul(Const(RInt(2)), Mul(Comp("u2", 0), Comp("v2", 0)))),
             Add(Mul(Comp("u1", 0), Comp("v2", 1)),
                 Mul(Comp("u2", 1), Comp("v1", 0))))
    [] cf[1] = "sum" ->
         Add(Tree(SumParts[cf[2]][1]), Tree(SumParts[cf[2]][2]))
    [] cf[1] = "mix" ->
         Add(Add(Mul(Comp("u1", 0), Comp("v1", 0)),
                 Mul(Const(RInt(2)), Mul(Comp("u2", 0), Comp("v2", 0)))),
             Add(Mul(Comp("u2", 1), Mul(Const(RInt(3)), Comp("v2", 1))),
                 Mul(Comp("u1", 0), Comp("v2", 1))))
    [] cf[1] = "lin" ->
         Add(Mul(Const(RInt(3)), Comp("v1", 0)),
             Add(Comp("v2", 0), Mul(Const(RInt(2)), Comp("v2", 1))))
    [] cf[1] = "half_u2" ->
         Mul(Const(RHalf), Mul(Comp("u1", 0), Comp("u1", 0)))
    [] cf[1] = "vecroot" -> Prx("u2")
    [] cf[1] = "coefuv" -> Mul(Coef, Mul(Comp("u1", 0), Comp("v1", 0)))
    [] cf[1] = "quad" -> QuadTree(QuadMats[cf[2]])

\* CoefficientFunction::Dimension()
CfDimension(node) == IF node.t = "proxy" THEN Dimension(node.p) ELSE 1

\* CoefficientFunction::TraverseTree: the nodes in the order visited
\* (children first, left to right, then the node itself)
RECURSIVE TraverseTree(_)
TraverseTree(node) ==
  IF node.t \in {"add", "mul"}
  THEN TraverseTree(node.a) \o TraverseTree(node.b) \o <<node>>
  ELSE IF node.t = "comp" THEN TraverseTree(node.a) \o <<node>>
  ELSE <<node>>

CoefDefinedAt(mip) == mip.x = 0
CoefValue(mip) == RInt(mip.x + 1)

\* whether evaluating the tree at one point raises an exception
RECURSIVE CfThrowsAt(_, _, _)
CfThrowsAt(node, udp, mip) ==
  CASE node.t = "const" -> FALSE
    [] node.t = "coef" -> ~CoefDefinedAt(mip)
    [] node.t = "proxy" -> ProxyEvaluate(node.p, udp, mip).thrown
    [] node.t = "comp" -> CfThrowsAt(node.a, udp, mip)
    [] OTHER -> CfThrowsAt(node.a, udp, mip) \/ CfThrowsAt(node.b, udp, mip)

\* whether evaluating the tree over a rule raises an exception
CfThrows(node, udp, mir) == \E i \in DOMAIN mir : CfThrowsAt(node, udp, mir[i])

\* CoefficientFunction::Evaluate (mip, result) of a scalar tree
RECURSIVE CfEvaluate(_, _, _)
CfEvaluate(node, udp, mip) ==
  CASE node.t = "const" -> node.c
    [] node.t = "coef" -> CoefValue(mip)
    [] node.t = "comp" -> ProxyEvaluate(node.a.p, udp, mip).result[node.k]
    [] node.t = "add" ->
         RAdd(CfEvaluate(node.a, udp, mip), CfEvaluate(node.b, udp, mip))
    [] node.t = "mul" ->
         RMul(CfEvaluate(node.a, udp, mip), CfEvaluate(node.b, udp, mip))

\* CoefficientFunction::Evaluate (mir, values): column 0 of values
CfEvaluateRule(node, udp, mir) == Stored(
  [i \in DOMAIN mir |-> CfEvaluate(node, udp, mir[i])])

\* CoefficientFunction::EvaluateDeriv (mir, val, deriv): value and first
\* directional derivative along the seeded direction, per point
RECURSIVE CfEvaluateDeriv(_, _, _)
CfEvaluateDeriv(node, udp, mir) == Stored(
  CASE node.t = "const" ->
         [val |-> [i \in DOMAIN mir |-> node.c],
          deriv |-> [i \in DOMAIN mir |-> RZero]]
    [] node.t = "coef" ->
         [val |-> [i \in DOMAIN mir |-> CoefValue(mir[i])],
          deriv |-> [i \in DOMAIN mir |-> RZero]]
    [] node.t = "comp" ->
         LET P == ProxyEvaluateDeriv(node.a.p, udp, mir)
         IN  [val |-> [i \in DOMAIN mir |-> P.result[i][node.k]],
              deriv |-> [i \in DOMAIN mir |-> P.deriv[i][node.k]]]
    [] node.t = "add" ->
         LET A == CfEvaluateDeriv(node.a, udp, mir)
             B == CfEvaluateDeriv(node.b, udp, mir)
         IN  [val |-> VecAdd(A.val, B.val), deriv |-> VecAdd(A.deriv, B.deriv)]
    [] node.t = "mul" ->
         LET A == CfEvaluateDeriv(node.a, udp, mir)
             B == CfEvaluateDeriv(node.b, udp, mir)
         IN  [val |-> [i \in DOMAIN mir |-> RMul(A.val[i], B.val[i])],
              deriv |-> [i \in DOMAIN mir |->
                           RAdd(RMul(A.deriv[i], B.val[i]),
                                RMul(A.val[i], B.deriv[i]))]])

\* CoefficientFunction::EvaluateDDeriv (mir, val, deriv, dderiv): value,
\* first and second directional derivative along the seeded direction
RECURSIVE CfEvaluateDDeriv(_, _, _)
CfEvaluateDDeriv(node, udp, mir) == Stored(
  CASE node.t = "const" ->
         [val |-> [i \in DOMAIN mir |-> node.c],
          deriv |-> [i \in DOMAIN mir |-> RZero],
          dderiv |-> [i \in DOMAIN mir |-> RZero]]
    [] node.t = "coef" ->
         [val |-> [i \in DOMAIN mir |-> CoefValue(mir[i])],
          deriv |-> [i \in DOMAIN mir |-> RZero],
          dderiv |-> [i \in DOMAIN mir |-> RZero]]
    [] node.t = "comp" ->
         LET P == ProxyEvaluateDDeriv(node.a.p, udp, mir)
         IN  [val |-> [i \in DOMAIN mir |-> P.result[i][node.k]],
              deriv |-> [i \in DOMAIN mir |-> P.deriv[i][node.k]],
              dderiv |-> [i \in DOMAIN mir |-> P.dderiv[i][node.k]]]
    [] node.t = "add" ->
         LET A == CfEvaluateDDeriv(node.a, udp, mir)
             B == CfEvaluateDDeriv(node.b, udp, mir)
         IN  [val |-> VecAdd(A.val, B.val),
              deriv |-> VecAdd(A.deriv, B.deriv),
              dderiv |-> VecAdd(A.dderiv, B.dderiv)]
    [] node.t = "mul" ->
         LET A == CfEvaluateDDeriv(node.a, udp, mir)
             B == CfEvaluateDDeriv(node.b, udp, mir)
         IN  [val |-> [i \in DOMAIN mir |-> RMul(A.val[i], B.val[i])],
              deriv |-> [i \in DOMAIN mir |->
                           RAdd(RMul(A.deriv[i], B.val[i]),
                                RMul(A.val[i], B.deriv[i]))],
              dderiv |-> [i \in DOMAIN mir |->
                            RAdd(RAdd(RMul(A.dderiv[i], B.val[i]),
                                      RMul(A.val[i], B.dderiv[i])),
                                 RMul(RInt(2), RMul(A.deriv[i], B.deriv[i])))]])

(***************************************************************************)
(* The integrators.  An integrator object is a record; kind "none" stands  *)
(* for no object (construction failed or has not happened).                *)
(***************************************************************************)
Contains(seq, e) == \E i \in 1..Len(seq) : seq[i] = e
NoIntegrator ==
  [kind |-> "none", cf |-> <<"none", 0>>, proxies |-> << >>,
   trial_proxies |-> << >>, test_proxies |-> << >>, element_boundary |-> FALSE]

\* The visitors of the three constructors, called on one node: the member(s)
\* after the call, acc being the member(s) before it.
VisitLFI(acc, nodecf) ==
  IF nodecf.t = "proxy" /\ ~Contains(acc, nodecf.p)
  THEN Append(acc, nodecf.p) ELSE acc

\* acc is <<trial_proxies, test_proxies>>
VisitBFI_TrialNoContains(acc, nodecf) ==
  IF nodecf.t = "proxy"
  THEN IF IsTestFunction(nodecf.p)
       THEN IF ~Contains(acc[2], nodecf.p)
            THEN <<acc[1], Append(acc[2], nodecf.p)>> ELSE acc
       ELSE <<Append(acc[1], nodecf.p), acc[2]>>
  ELSE acc

VisitBFI(acc, nodecf) ==
  IF nodecf.t = "proxy"
  THEN IF IsTestFunction(nodecf.p)
       THEN IF ~Contains(acc[2], nodecf.p)
            THEN <<acc[1], Append(acc[2], nodecf.p)>> ELSE acc
       ELSE IF ~Contains(acc[1], nodecf.p)
            THEN <<Append(acc[1], nodecf.p), acc[2]>> ELSE acc
  ELSE acc

VisitEnergy_NoFilter(acc, nodecf) ==
  IF nodecf.t = "proxy" /\ ~Contains(acc, nodecf.p)
  THEN Append(acc, nodecf.p) ELSE acc

VisitEnergy(acc, nodecf) ==
  IF nodecf.t = "proxy" /\ ~IsTestFunction(nodecf.p) /\ ~Contains(acc, nodecf.p)
  THEN Append(acc, nodecf.p) ELSE acc

\* TraverseTree calling a visitor on nodes[lo], .., nodes[hi] in this order
\* (the range is split in two halves, the first half visited first)
RECURSIVE CollectProxies(_, _, _, _)
CollectProxies(acc, nodes, lo, hi) ==
  From(<<acc>>,
       IF hi < lo THEN acc
       ELSE IF lo = hi THEN VisitLFI(acc, nodes[lo])
       ELSE CollectProxies(CollectProxies(acc, nodes, lo, (lo + hi) \div 2),
                           nodes, ((lo + hi) \div 2) + 1, hi))

RECURSIVE CollectTrialTest(_, _, _, _)
CollectTrialTest(acc, nodes, lo, hi) ==
  From(<<acc>>,
       IF hi < lo THEN acc
       ELSE IF lo = hi THEN VisitBFI(acc, nodes[lo])
       ELSE CollectTrialTest(CollectTrialTest(acc, nodes, lo, (lo + hi) \div 2),
                             nodes, ((lo + hi) \div 2) + 1, hi))

RECURSIVE CollectTrial(_, _, _, _)
CollectTrial(acc, nodes, lo, hi) ==
  From(<<acc>>,
       IF hi < lo THEN acc
       ELSE IF lo = hi THEN VisitEnergy(acc, nodes[lo])
       ELSE CollectTrial(CollectTrial(acc, nodes, lo, (lo + hi) \div 2),
                         nodes, ((lo + hi) \div 2) + 1, hi))

\* A constructor's outcome: whether it threw, the object, and how many nodes
\* of the tree its visitor was called on.
SymbolicLinearFormIntegrator(acf) ==
  IF CfDimension(Tree(acf)) # 1
  THEN [thrown |-> TRUE, obj |-> NoIntegrator, visited |-> 0]
  ELSE LET nodes == TraverseTree(Tree(acf))
       IN  [thrown |-> FALSE,
            obj |-> [NoIntegrator EXCEPT !.kind = "lfi", !.cf = acf,
                       !.proxies = CollectProxies(<< >>, nodes, 1, Len(nodes))],
            visited |-> Len(nodes)]

SymbolicBilinearFormIntegrator_TraverseFirst(acf, aelement_boundary) ==
  LET nodes == TraverseTree(Tree(acf))
      tt == CollectTrialTest(<< << >>, << >> >>, nodes, 1, Len(nodes))
  IN  IF CfDimension(Tree(acf)) # 1
      THEN [thrown |-> TRUE, obj |-> NoIntegrator, visited |-> Len(nodes)]
      ELSE [thrown |-> FALSE,
            obj |-> [NoIntegrator EXCEPT !.kind = "bfi", !.cf = acf,
                       !.trial_proxies = tt[1], !.test_proxies = tt[2],
                       !.element_boundary = aelement_boundary],
            visited |-> Len(nodes)]

SymbolicBilinearFormIntegrator(acf, aelement_boundary) ==
  IF CfDimension(Tree(acf)) # 1
  THEN [thrown |-> TRUE, obj |-> NoIntegrator, visited |-> 0]
  ELSE LET nodes == TraverseTree(Tree(acf))
           tt == CollectTrialTest(<< << >>, << >> >>, nodes, 1, Len(nodes))
       IN  [thrown |-> FALSE,
            obj |-> [NoIntegrator EXCEPT !.kind = "bfi", !.cf = acf,
                       !.trial_proxies = tt[1], !.test_proxies = tt[2],
                       !.element_boundary = aelement_boundary],
            visited |-> Len(nodes)]

SymbolicEnergy(acf) ==
  IF CfDimension(Tree(acf)) # 1
  THEN [thrown |-> TRUE, obj |-> NoIntegrator, visited |-> 0]
  ELSE LET nodes == TraverseTree(Tree(acf))
       IN  [thrown |-> FALSE,
            obj |-> [NoIntegrator EXCEPT !.kind = "energy", !.cf = acf,
                       !.trial_proxies = CollectTrial(<< >>, nodes, 1, Len(nodes))],
            visited |-> Len(nodes)]

(***************************************************************************)
(* Seeding of a ProxyUserData                                              *)
(***************************************************************************)
Pinned(ud, el, x) == [ud EXCEPT !.fel = el, !.elx = x, !.lh = "lh"]
SeedTest(ud, sd) == [ud EXCEPT !.testfunction = sd[1], !.test_comp = sd[2]]
SeedTrial(ud, sd) == [ud EXCEPT !.trialfunction = sd[1], !.trial_comp = sd[2]]

(***************************************************************************)
(* SymbolicLinearFormIntegrator::T_CalcElementVector                       *)
(***************************************************************************)
\* proxyvalues of one proxy: column k is cf evaluated with (proxy, k) seeded
\* as test function, each row scaled by the weight of its point
LFIProxyValues(integ, proxy, r) == Stored(
  [i \in DOMAIN r |->
     [k \in 0..(Dimension(proxy) - 1) |->
        RMul(CfEvaluate(Tree(integ.cf),
                        <<SeedTest(NewProxyUserData, <<proxy, k>>)>>, r[i]),
             RInt(r[i].w))]])

\* the loop over the first n proxies: whether an evaluation threw, and elvec
RECURSIVE LFILoop(_, _, _, _)
LFILoop(integ, el, r, n) ==
  IF n = 0 THEN [thrown |-> FALSE, elvec |-> ZeroVec(NDof(el))]
  ELSE LET prev == LFILoop(integ, el, r, n - 1)
           proxy == integ.proxies[n]
       IN  IF prev.thrown THEN prev
           ELSE IF CfThrows(Tree(integ.cf), <<NewProxyUserData>>, r)
           THEN [prev EXCEPT !.thrown = TRUE]
           ELSE [thrown |-> FALSE,
                 elvec |-> VecAdd(prev.elvec,
                             ApplyTrans(Evaluator(proxy), el, r,
                                        LFIProxyValues(integ, proxy, r)))]

\* the whole call: trafo.userdata and elvec on return (or on the throw)
T_CalcElementVector(integ, el, r) ==
  LET done == LFILoop(integ, el, r, Len(integ.proxies))
  IN  [thrown |-> done.thrown, userdata |-> "&ud", elvec |-> done.elvec]

(***************************************************************************)
(* SymbolicBilinearFormIntegrator::T_CalcElementMatrix, volume part        *)
(***************************************************************************)
BS == 16

\* proxyvalues(i, l, k) before the weighting: cf evaluated with
\* trial = (proxy1, k) and test = (proxy2, l)
BFIProxyValuesRaw(integ, proxy1, proxy2, r) == Stored(
  [i \in DOMAIN r |->
     [l \in 0..(Dimension(proxy2) - 1) |->
        [k \in 0..(Dimension(proxy1) - 1) |->
           CfEvaluate(Tree(integ.cf),
                      <<SeedTest(SeedTrial(NewProxyUserData, <<proxy1, k>>),
                                 <<proxy2, l>>)>>,
                      r[i])]]])

\* proxyvalues(i,STAR,STAR) *= mir[i].GetWeight()
WeightTensor_Unweighted(pv, r) == pv

WeightTensor_Twice(pv, r) == From(<<pv, r>>,
  [i \in DOMAIN pv |->
     [l \in DOMAIN pv[i] |->
        [k \in DOMAIN pv[i][l] |->
           RMul(RMul(pv[i][l][k], RInt(r[i].w)), RInt(r[i].w))]]])

WeightTensor(pv, r) == From(<<pv, r>>,
  [i \in DOMAIN pv |->
     [l \in DOMAIN pv[i] |->
        [k \in DOMAIN pv[i][l] |-> RMul(pv[i][l][k], RInt(r[i].w))]]])

\* One block of points i0 .. i0+size-1: the stacked matrices
\*   bdbmat1.Rows(j) = proxyvalues(ii,STAR,STAR) * bmat1,  bbmat2.Rows(j) = bmat2
\* with row rho = j * Dimension(proxy2) + l, and the product
\*   Trans(bbmat2.Cols(r2)) * bdbmat1.Cols(r1)   placed at Rows(r2).Cols(r1)
Bdbmat1_FirstComponent(proxy1, proxy2, pv, el, r, i0, size) == From(<<pv, r>>,
  [rho \in 0..(size * Dimension(proxy2) - 1) |->
     LET j == rho \div Dimension(proxy2)
         l == rho % Dimension(proxy2)
         bmat1 == CalcMatrix(Evaluator(proxy1), el, r[i0 + j])
     IN  [b \in 0..(NDof(el) - 1) |-> RMul(pv[i0 + j][l][0], bmat1[0][b])]])

Bdbmat1(proxy1, proxy2, pv, el, r, i0, size) == From(<<pv, r>>,
  [rho \in 0..(size * Dimension(proxy2) - 1) |->
     LET j == rho \div Dimension(proxy2)
         l == rho % Dimension(proxy2)
         bmat1 == CalcMatrix(Evaluator(proxy1), el, r[i0 + j])
     IN  [b \in 0..(NDof(el) - 1) |->
            RSum([k \in 0..(Dimension(proxy1) - 1) |->
                    RMul(pv[i0 + j][l][k], bmat1[k][b])],
                 0, Dimension(proxy1) - 1)]])

Bbmat2(proxy2, el, r, i0, size) == Stored(
  [rho \in 0..(size * Dimension(proxy2) - 1) |->
     LET j == rho \div Dimension(proxy2)
         l == rho % Dimension(proxy2)
     IN  CalcMatrix(Evaluator(proxy2), el, r[i0 + j])[l]])

\* the ranges of the innermost declarations, of the last point of the block
BlockProduct_InnerRanges(proxy1, proxy2, pv, el, r, i0, size) == From(<<pv, r>>,
  LET bdbmat1 == Bdbmat1(proxy1, proxy2, pv, el, r, i0, size)
      bbmat2 == Bbmat2(proxy2, el, r, i0, size)
      r1 == <<Dimension(proxy1) * (size - 1), Dimension(proxy1) * size>>
      r2 == <<Dimension(proxy2) * (size - 1), Dimension(proxy2) * size>>
  IN  [a \in 0..(NDof(el) - 1) |->
         [b \in 0..(NDof(el) - 1) |->
            IF InRange(a, r2) /\ InRange(b, r1)
            THEN RSum([rho \in DOMAIN bdbmat1 |->
                         RMul(bbmat2[rho][a], bdbmat1[rho][b])],
                      0, Len0(bdbmat1) - 1)
            ELSE RZero]])

BlockProduct(proxy1, proxy2, pv, el, r, i0, size) == From(<<pv, r>>,
  LET bdbmat1 == Bdbmat1(proxy1, proxy2, pv, el, r, i0, size)
      bbmat2 == Bbmat2(proxy2, el, r, i0, size)
      r1 == UsedDofs(Evaluator(proxy1), el)
      r2 == UsedDofs(Evaluator(proxy2), el)
  IN  [a \in 0..(NDof(el) - 1) |->
         [b \in 0..(NDof(el) - 1) |->
            IF InRange(a, r2) /\ InRange(b, r1)
            THEN RSum([rho \in DOMAIN bdbmat1 |->
                         RMul(bbmat2[rho][a], bdbmat1[rho][b])],
                      0, Len0(bdbmat1) - 1)
            ELSE RZero]])

RECURSIVE Contract_NoRest(_, _, _, _, _, _, _)
Contract_NoRest(elmat, proxy1, proxy2, pv, el, r, i) ==
  IF i + BS <= Len0(r)
  THEN Contract_NoRest(MatAdd(elmat, BlockProduct(proxy1, proxy2, pv, el, r, i, BS)),
                       proxy1, proxy2, pv, el, r, i + BS)
  ELSE elmat

\* for ( ; i+BS <= mir.Size(); i+=BS) ... ; if (i < mir.Size()) ... :
\* elmat after the blocks starting at i
RECURSIVE Contract(_, _, _, _, _, _, _)
Contract(elmat, proxy1, proxy2, pv, el, r, i) ==
  IF i + BS <= Len0(r)
  THEN Contract(MatAdd(elmat, BlockProduct(proxy1, proxy2, pv, el, r, i, BS)),
                proxy1, proxy2, pv, el, r, i + BS)
  ELSE IF i < Len0(r)
  THEN MatAdd(elmat, BlockProduct(proxy1, proxy2, pv, el, r, i, Len0(r) - i))
  ELSE elmat

\* The same two loops with the enumerator BS given the value bs
RECURSIVE ContractBS(_, _, _, _, _, _, _, _)
ContractBS(bs, elmat, proxy1, proxy2, pv, el, r, i) ==
  IF i + bs <= Len0(r)
  THEN ContractBS(bs, MatAdd(elmat, BlockProduct(proxy1, proxy2, pv, el, r, i, bs)),
                  proxy1, proxy2, pv, el, r, i + bs)
  ELSE IF i < Len0(r)
  THEN MatAdd(elmat, BlockProduct(proxy1, proxy2, pv, el, r, i, Len0(r) - i))
  ELSE elmat

\* the pairs (trial proxy, test proxy) in the order of the nested loops
PairAt(integ, n) ==
  <<integ.trial_proxies[((n - 1) \div Len(integ.test_proxies)) + 1],
    integ.test_proxies[((n - 1) % Len(integ.test_proxies)) + 1]>>
NPairs(integ) == Len(integ.trial_proxies) * Len(integ.test_proxies)

\* the loop over the first n pairs: whether an evaluation threw, and elmat
RECURSIVE BFILoop(_, _, _, _)
BFILoop(integ, el, r, n) ==
  IF n = 0 THEN [thrown |-> FALSE, elmat |-> ZeroMat(NDof(el), NDof(el))]
  ELSE LET prev == BFILoop(integ, el, r, n - 1)
           proxy1 == PairAt(integ, n)[1]
           proxy2 == PairAt(integ, n)[2]
       IN  IF prev.thrown THEN prev
           ELSE IF CfThrows(Tree(integ.cf), <<NewProxyUserData>>, r)
           THEN [prev EXCEPT !.thrown = TRUE]
           ELSE [thrown |-> FALSE,
                 elmat |-> Contract(prev.elmat, proxy1, proxy2,
                             WeightTensor(BFIProxyValuesRaw(integ, proxy1, proxy2, r), r),
                             el, r, 0)]

T_CalcElementMatrixVol(integ, el, r) ==
  LET done == BFILoop(integ, el, r, NPairs(integ))
  IN  [thrown |-> done.thrown, userdata |-> "&ud", elmat |-> done.elmat]

(***************************************************************************)
(* SymbolicBilinearFormIntegrator::T_CalcElementMatrixEB<D>                *)
(*                                                                         *)
(* The geometry is that of an axis-parallel box: the element has 2*D       *)
(* facets, facet k has the reference normal -e_a or +e_a with a = k / 2,   *)
(* and the Jacobian is diag(1, 2, .., D).                                  *)
(***************************************************************************)
GetNFacets(D) == 2 * D
GetNormals(D, k) == Stored(
  [a \in 0..(D - 1) |->
     IF a = k \div 2 THEN (IF k % 2 = 0 THEN RInt(0 - 1) ELSE ROne) ELSE RZero])
GetJacobianInverse(D) == Stored(
  [a \in 0..(D - 1) |-> [b \in 0..(D - 1) |-> IF a = b THEN Rat(1, a + 1) ELSE RZero]])
RECURSIVE Factorial(_)
Factorial(n) == IF n <= 1 THEN 1 ELSE n * Factorial(n - 1)
GetMeasure(D) == RInt(Factorial(D))

\* the facet rule of facet k mapped into the element: the points of the
\* rule, w being ir_facet[i].Weight()
FacetRule(r, k) == Stored([i \in DOMAIN r |-> [x |-> (r[i].x + k) % 2, w |-> r[i].w]])

ISqrt(n) == CHOOSE s \in 0..n : s * s = n
RSqrt(q) == <<ISqrt(q[1]), ISqrt(q[2])>>
L2Norm(v) == RSqrt(RSum([a \in DOMAIN v |-> RMul(v[a], v[a])], 0, Len0(v) - 1))

\* Vec<D> normal = det * Trans (inv_jac) * normal_ref
PhysicalNormal(D, k) == Stored(
  LET inv_jac == GetJacobianInverse(D)
      normal_ref == GetNormals(D, k)
  IN  [a \in 0..(D - 1) |->
         RMul(GetMeasure(D),
              RSum([b \in 0..(D - 1) |-> RMul(inv_jac[b][a], normal_ref[b])],
                   0, D - 1))])

\* double len = L2Norm (normal): the surface measure
SurfaceMeasure(D, k) == L2Norm(PhysicalNormal(D, k))

\* proxyvalues(l,k) = ir_facet[i].Weight() * len * result(0)
EBProxyValues(integ, proxy1, proxy2, mip, len) == Stored(
  [l \in 0..(Dimension(proxy2) - 1) |->
     [k \in 0..(Dimension(proxy1) - 1) |->
        RMul(RMul(RInt(mip.w), len),
             CfEvaluate(Tree(integ.cf),
                        <<SeedTest(SeedTrial(NewProxyUserData, <<proxy1, k>>),
                                   <<proxy2, l>>)>>,
                        mip))]])

\* Trans (bmat2) * (proxyvalues * bmat1) of one pair at one point
EBPairProduct(integ, proxy1, proxy2, el, mip, len) == Stored(
  LET pv == EBProxyValues(integ, proxy1, proxy2, mip, len)
      bmat1 == CalcMatrix(Evaluator(proxy1), el, mip)
      bmat2 == CalcMatrix(Evaluator(proxy2), el, mip)
      dbmat1 == Stored([l \in 0..(Dimension(proxy2) - 1) |->
                   [b \in 0..(NDof(el) - 1) |->
                      RSum([k \in 0..(Dimension(proxy1) - 1) |->
                              RMul(pv[l][k], bmat1[k][b])],
                           0, Dimension(proxy1) - 1)]])
  IN  [a \in 0..(NDof(el) - 1) |->
         [b \in 0..(NDof(el) - 1) |->
            RSum([l \in 0..(Dimension(proxy2) - 1) |->
                    RMul(bmat2[l][a], dbmat1[l][b])],
                 0, Dimension(proxy2) - 1)]])

\* elmat after the first n pairs at one point
RECURSIVE EBPairLoop(_, _, _, _, _, _)
EBPairLoop(elmat, integ, el, mip, len, n) ==
  IF n = 0 THEN elmat
  ELSE MatAdd(EBPairLoop(elmat, integ, el, mip, len, n - 1),
              EBPairProduct(integ, PairAt(integ, n)[1], PairAt(integ, n)[2],
                            el, mip, len))

\* the loops over the facets and their points, flattened: the state after
\* the first m (facet, point) steps
RECURSIVE EBLoop(_, _, _, _, _)
EBLoop(integ, D, el, r, m) ==
  IF m = 0 THEN [thrown |-> FALSE, elmat |-> ZeroMat(NDof(el), NDof(el))]
  ELSE LET prev == EBLoop(integ, D, el, r, m - 1)
           k == (m - 1) \div Len0(r)
           mip == FacetRule(r, k)[(m - 1) % Len0(r)]
       IN  IF prev.thrown THEN prev
           ELSE IF NPairs(integ) > 0
                   /\ CfThrowsAt(Tree(integ.cf), <<NewProxyUserData>>, mip)
           THEN [prev EXCEPT !.thrown = TRUE]
           ELSE [thrown |-> FALSE,
                 elmat |-> EBPairLoop(prev.elmat, integ, el, mip,
                                      SurfaceMeasure(D, k), NPairs(integ))]

T_CalcElementMatrixEB(integ, D, el, r) ==
  LET done == EBLoop(integ, D, el, r, GetNFacets(D) * Len0(r))
  IN  [thrown |-> done.thrown, userdata |-> "&ud", elmat |-> done.elmat]

(***************************************************************************)
(* SymbolicBilinearFormIntegrator::T_CalcElementMatrix: the dispatch.      *)
(* userdata0 and elmat0 are trafo.userdata and the caller's buffer on      *)
(* entry.                                                                  *)
(***************************************************************************)
T_CalcElementMatrix_DispatchLast(integ, tr, el, r, userdata0, elmat0) ==
  IF integ.element_boundary
  THEN IF tr.SpaceDim \in {1, 2, 3}
       THEN T_CalcElementMatrixEB(integ, tr.SpaceDim, el, r)
       ELSE [thrown |-> TRUE, userdata |-> "&ud",
             elmat |-> ZeroMat(NDof(el), NDof(el))]
  ELSE T_CalcElementMatrixVol(integ, el, r)

T_CalcElementMatrix_NoZero(integ, tr, el, r, userdata0, elmat0) ==
  IF integ.element_boundary
  THEN IF tr.SpaceDim \in {1, 2, 3}
       THEN LET c == T_CalcElementMatrixEB(integ, tr.SpaceDim, el, r)
            IN  [c EXCEPT !.elmat = MatAdd(elmat0, c.elmat)]
       ELSE [thrown |-> TRUE, userdata |-> userdata0, elmat |-> elmat0]
  ELSE LET c == T_CalcElementMatrixVol(integ, el, r)
       IN  [c EXCEPT !.elmat = MatAdd(elmat0, c.elmat)]

T_CalcElementMatrix(integ, tr, el, r, userdata0, elmat0) ==
  IF integ.element_boundary
  THEN IF tr.SpaceDim \in {1, 2, 3}
       THEN T_CalcElementMatrixEB(integ, tr.SpaceDim, el, r)
       ELSE [thrown |-> TRUE, userdata |-> userdata0, elmat |-> elmat0]
  ELSE T_CalcElementMatrixVol(integ, el, r)

(***************************************************************************)
(* SymbolicEnergy::CalcLinearizedElementMatrix                             *)
(***************************************************************************)
\* ud after lines 532-541: element pinned, remember filled for every trial
\* proxy with the operator applied to elveclin over the whole rule
LinearizedContext_FirstProxyOnly(integ, el, r, elveclin) == Stored(
  [Pinned(NewProxyUserData, el, elveclin) EXCEPT
     !.remember = [p \in {integ.trial_proxies[n] : n \in 1..Len(integ.trial_proxies)}
                          \cap {integ.trial_proxies[1]} |->
                     ApplyRule(Evaluator(p), el, r, elveclin)]])

LinearizedContext(integ, el, r, elveclin) == Stored(
  [Pinned(NewProxyUserData, el, elveclin) EXCEPT
     !.remember = [p \in {integ.trial_proxies[n] : n \in 1..Len(integ.trial_proxies)} |->
                     ApplyRule(Evaluator(p), el, r, elveclin)]])

\* dderiv.Col(0) of cf->EvaluateDDeriv with trial = s1 and test = s2 seeded
\* in the context ud
SeededDDeriv(integ, ud, r, s1, s2) ==
  CfEvaluateDDeriv(Tree(integ.cf), <<SeedTest(SeedTrial(ud, s1), s2)>>, r).dderiv

\* diags[k1].Col(k): the component seeded as test and trial at once
Diags_NotYetRecorded(integ, ud, r) == From(<<ud>>,
  [k1 \in 1..Len(integ.trial_proxies) |->
     [k \in 0..(Dimension(integ.trial_proxies[k1]) - 1) |->
        IF k1 = Len(integ.trial_proxies)
        THEN [i \in DOMAIN r |-> RZero]
        ELSE SeededDDeriv(integ, ud, r,
                          <<integ.trial_proxies[k1], k>>,
                          <<integ.trial_proxies[k1], k>>)]])

Diags(integ, ud, r) == From(<<ud>>,
  [k1 \in 1..Len(integ.trial_proxies) |->
     [k \in 0..(Dimension(integ.trial_proxies[k1]) - 1) |->
        SeededDDeriv(integ, ud, r,
                     <<integ.trial_proxies[k1], k>>, <<integ.trial_proxies[k1], k>>)]])

\* if (proxy1 != proxy2 || k != l): subtract both diagonals, halve
Polarize_NoHalf(combined, d1, d2, same) ==
  IF ~same THEN RSub(RSub(combined, d1), d2) ELSE combined

Polarize(combined, d1, d2, same) ==
  IF ~same THEN RMul(RSub(RSub(combined, d1), d2), RHalf) ELSE combined

EnergyProxyValuesRaw_OneDiagonal(integ, ud, r, diags, k1, l1) == From(<<ud, diags>>,
  LET proxy1 == integ.trial_proxies[k1]
      proxy2 == integ.trial_proxies[l1]
      ddcols == Stored([l \in 0..(Dimension(proxy2) - 1) |->
                   [k \in 0..(Dimension(proxy1) - 1) |->
                      SeededDDeriv(integ, ud, r, <<proxy1, k>>, <<proxy2, l>>)]])
  IN  [i \in DOMAIN r |->
         [l \in 0..(Dimension(proxy2) - 1) |->
            [k \in 0..(Dimension(proxy1) - 1) |->
               Polarize(ddcols[l][k][i], diags[k1][k][i], diags[k1][k][i],
                        proxy1 = proxy2 /\ k = l)]]])

\* proxyvalues(i, l, k) of the pair (trial_proxies[k1], trial_proxies[l1])
\* before the weighting
EnergyProxyValuesRaw(integ, ud, r, diags, k1, l1) == From(<<ud, diags>>,
  LET proxy1 == integ.trial_proxies[k1]
      proxy2 == integ.trial_proxies[l1]
      ddcols == Stored([l \in 0..(Dimension(proxy2) - 1) |->
                   [k \in 0..(Dimension(proxy1) - 1) |->
                      SeededDDeriv(integ, ud, r, <<proxy1, k>>, <<proxy2, l>>)]])
  IN  [i \in DOMAIN r |->
         [l \in 0..(Dimension(proxy2) - 1) |->
            [k \in 0..(Dimension(proxy1) - 1) |->
               Polarize(ddcols[l][k][i], diags[k1][k][i], diags[l1][l][i],
                        proxy1 = proxy2 /\ k = l)]]])

\* elmat += Trans (bbmat2) * bdbmat1 for one block of points
BlockProductFull(proxy1, proxy2, pv, el, r, i0, size) == From(<<pv, r>>,
  LET bdbmat1 == Bdbmat1(proxy1, proxy2, pv, el, r, i0, size)
      bbmat2 == Bbmat2(proxy2, el, r, i0, size)
  IN  [a \in 0..(NDof(el) - 1) |->
         [b \in 0..(NDof(el) - 1) |->
            RSum([rho \in DOMAIN bdbmat1 |->
                    RMul(bbmat2[rho][a], bdbmat1[rho][b])],
                 0, Len0(bdbmat1) - 1)]])

RECURSIVE ContractFull(_, _, _, _, _, _, _)
ContractFull(elmat, proxy1, proxy2, pv, el, r, i) ==
  IF i + BS <= Len0(r)
  THEN ContractFull(MatAdd(elmat, BlockProductFull(proxy1, proxy2, pv, el, r, i, BS)),
                    proxy1, proxy2, pv, el, r, i + BS)
  ELSE IF i < Len0(r)
  THEN MatAdd(elmat, BlockProductFull(proxy1, proxy2, pv, el, r, i, Len0(r) - i))
  ELSE elmat

\* the weighted tensor of the n-th pair of the cross pass (k1 outer, l1 inner)
EnergyTensor(integ, ud, r, diags, n) ==
  LET np == Len(integ.trial_proxies)
  IN  WeightTensor(EnergyProxyValuesRaw(integ, ud, r, diags,
                                        ((n - 1) \div np) + 1, ((n - 1) % np) + 1),
                   r)

\* elmat after the contraction of the first n pairs
RECURSIVE EnergyLoop(_, _, _, _, _)
EnergyLoop(integ, el, r, tensors, n) ==
  IF n = 0 THEN ZeroMat(NDof(el), NDof(el))
  ELSE LET np == Len(integ.trial_proxies)
       IN  ContractFull(EnergyLoop(integ, el, r, tensors, n - 1),
                        integ.trial_proxies[((n - 1) \div np) + 1],
                        integ.trial_proxies[((n - 1) % np) + 1],
                        tensors[n], el, r, 0)

\* the whole call; proxyvalues is the weighted tensor of every pair
CalcLinearizedElementMatrix(integ, el, r, elveclin) ==
  LET np == Len(integ.trial_proxies)
  IN  IF np > 0 /\ CfThrows(Tree(integ.cf), <<NewProxyUserData>>, r)
      THEN [thrown |-> TRUE, userdata |-> "&ud",
            elmat |-> ZeroMat(NDof(el), NDof(el)), proxyvalues |-> << >>]
      ELSE LET ud == LinearizedContext(integ, el, r, elveclin)
               diags == Diags(integ, ud, r)
               tensors == Stored([n \in 1..(np * np) |->
                                    EnergyTensor(integ, ud, r, diags, n)])
           IN  [thrown |-> FALSE, userdata |-> "&ud",
                elmat |-> EnergyLoop(integ, el, r, tensors, np * np),
                proxyvalues |-> tensors]

(***************************************************************************)
(* SymbolicEnergy::Energy                                                  *)
(***************************************************************************)
Energy_Unweighted(integ, el, r, x) ==
  IF CfThrows(Tree(integ.cf), <<NewProxyUserData>>, r)
  THEN [thrown |-> TRUE, userdata |-> "&ud", sum |-> RZero]
  ELSE LET values == CfEvaluateRule(Tree(integ.cf), <<Pinned(NewProxyUserData, el, x)>>, r)
       IN  [thrown |-> FALSE, userdata |-> "&ud",
            sum |-> RSum(values, 0, Len0(r) - 1)]

Energy(integ, el, r, x) ==
  IF CfThrows(Tree(integ.cf), <<NewProxyUserData>>, r)
  THEN [thrown |-> TRUE, userdata |-> "&ud", sum |-> RZero]
  ELSE LET values == CfEvaluateRule(Tree(integ.cf), <<Pinned(NewProxyUserData, el, x)>>, r)
       IN  [thrown |-> FALSE, userdata |-> "&ud",
            sum |-> RSum([i \in DOMAIN r |-> RMul(RInt(r[i].w), values[i])],
                         0, Len0(r) - 1)]

(***************************************************************************)
(* SymbolicEnergy::ApplyElementMatrix                                      *)
(***************************************************************************)
\* proxyvalues of one trial proxy: column k is deriv.Col(0) of
\* cf->EvaluateDeriv with (proxy, k) seeded as trial function, rows weighted
ApplyProxyValues(integ, proxy, el, r, x) == Stored(
  LET dcols == Stored([k \in 0..(Dimension(proxy) - 1) |->
                  CfEvaluateDeriv(Tree(integ.cf),
                                  <<SeedTrial(Pinned(NewProxyUserData, el, x), <<proxy, k>>)>>,
                                  r).deriv])
  IN  [i \in DOMAIN r |->
         [k \in 0..(Dimension(proxy) - 1) |-> RMul(dcols[k][i], RInt(r[i].w))]])

RECURSIVE ApplyLoop(_, _, _, _, _)
ApplyLoop(integ, el, r, x, n) ==
  IF n = 0 THEN [thrown |-> FALSE, ely |-> ZeroVec(NDof(el))]
  ELSE LET prev == ApplyLoop(integ, el, r, x, n - 1)
           proxy == integ.trial_proxies[n]
       IN  IF prev.thrown THEN prev
           ELSE IF CfThrows(Tree(integ.cf), <<NewProxyUserData>>, r)
           THEN [prev EXCEPT !.thrown = TRUE]
           ELSE [thrown |-> FALSE,
                 ely |-> VecAdd(prev.ely,
                           ApplyTrans(Evaluator(proxy), el, r,
                                      ApplyProxyValues(integ, proxy, el, r, x)))]

ApplyElementMatrix(integ, el, r, x) ==
  LET done == ApplyLoop(integ, el, r, x, Len(integ.trial_proxies))
  IN  [thrown |-> done.thrown, userdata |-> "&ud", ely |-> done.ely]

(***************************************************************************)
(* The expression evaluations a call issues, in program order.  Each is    *)
(* the ProxyUserData ud at the evaluation (after the assignments at the    *)
(* head of the innermost loop), the function called on cf, the seeds and   *)
(* the pass, and for the element boundary the facet, the point and the     *)
(* normal set on the point.                                                *)
(***************************************************************************)
RECURSIVE Flatten(_, _)
Flatten(ss, n) == IF n = 0 THEN << >> ELSE Flatten(ss, n - 1) \o ss[n]

Evaluation(fn, pass, ud, n, s1, s2) ==
  [fn |-> fn, pass |-> pass, ud |-> ud, pair |-> n,
   trial |-> s1, test |-> s2, facet |-> 0 - 1, point |-> 0 - 1, nv |-> << >>]

NoSeed == <<NullPtr, 0 - 1>>

\* T_CalcElementVector, lines 200-209
VectorEvaluations(integ) ==
  Flatten([n \in 1..Len(integ.proxies) |->
             [e \in 1..Dimension(integ.proxies[n]) |->
                Evaluation("Evaluate", "test",
                           SeedTest(NewProxyUserData, <<integ.proxies[n], e - 1>>),
                           n, NoSeed, <<integ.proxies[n], e - 1>>)]],
          Len(integ.proxies))

PairSeeds_SameComponent(proxy1, proxy2, e) ==
  << <<proxy1, (e - 1) % Dimension(proxy1)>>,
     <<proxy2, (e - 1) % Dimension(proxy2)>> >>

\* for k .. for l ..: the seeds of the e-th evaluation of a pair
PairSeeds(proxy1, proxy2, e) ==
  << <<proxy1, (e - 1) \div Dimension(proxy2)>>,
     <<proxy2, (e - 1) % Dimension(proxy2)>> >>

\* T_CalcElementMatrix, lines 327-345
VolumeEvaluations(integ) ==
  Flatten([n \in 1..NPairs(integ) |->
             LET proxy1 == PairAt(integ, n)[1]
                 proxy2 == PairAt(integ, n)[2]
             IN  [e \in 1..(Dimension(proxy1) * Dimension(proxy2)) |->
                    LET sd == PairSeeds(proxy1, proxy2, e)
                    IN  Evaluation("Evaluate", "pair",
                                   SeedTest(SeedTrial(NewProxyUserData, sd[1]), sd[2]),
                                   n, sd[1], sd[2])]],
          NPairs(integ))

RDiv(a, b) == Rat(a[1] * b[2], a[2] * b[1])

\* normal /= len; mip.SetNV(normal)
UnitNormal_NotNormalised(D, k) ==
  [a \in 0..(D - 1) |-> PhysicalNormal(D, k)[a]]

UnitNormal(D, k) ==
  [a \in 0..(D - 1) |-> RDiv(PhysicalNormal(D, k)[a], SurfaceMeasure(D, k))]

\* T_CalcElementMatrixEB, lines 430-472: facets, points, pairs, k, l
BoundaryEvaluations(integ, D, r) ==
  LET evs == VolumeEvaluations(integ)
  IN  Flatten([m \in 1..(GetNFacets(D) * Len0(r)) |->
                 LET nv == UnitNormal(D, (m - 1) \div Len0(r))
                 IN  [e \in 1..Len(evs) |->
                        [evs[e] EXCEPT !.facet = (m - 1) \div Len0(r),
                                       !.point = (m - 1) % Len0(r),
                                       !.nv = nv]]],
              GetNFacets(D) * Len0(r))

\* CalcLinearizedElementMatrix, lines 550-564 and 567-592
LinearizedEvaluations(integ, el, r, elveclin) ==
  LET ud == LinearizedContext(integ, el, r, elveclin)
      np == Len(integ.trial_proxies)
  IN  Flatten([k1 \in 1..np |->
                 [e \in 1..Dimension(integ.trial_proxies[k1]) |->
                    LET sd == <<integ.trial_proxies[k1], e - 1>>
                    IN  Evaluation("EvaluateDDeriv", "diag",
                                   SeedTest(SeedTrial(ud, sd), sd), k1, sd, sd)]],
              np)
      \o
      Flatten([n \in 1..(np * np) |->
                 LET proxy1 == integ.trial_proxies[((n - 1) \div np) + 1]
                     proxy2 == integ.trial_proxies[((n - 1) % np) + 1]
                 IN  [e \in 1..(Dimension(proxy1) * Dimension(proxy2)) |->
                        LET sd == PairSeeds(proxy1, proxy2, e)
                        IN  Evaluation("EvaluateDDeriv", "cross",
                                       SeedTest(SeedTrial(ud, sd[1]), sd[2]),
                                       n, sd[1], sd[2])]],
              np * np)

\* SymbolicEnergy::Energy, line 695
EnergyEvaluations(integ, el, x) ==
  <<Evaluation("Evaluate", "whole", Pinned(NewProxyUserData, el, x), 0,
               NoSeed, NoSeed)>>

\* ApplyElementMatrix, lines 726-736
ApplyEvaluations_FirstComponent(integ, el, x) ==
  Flatten([n \in 1..Len(integ.trial_proxies) |->
             [e \in 1..Dimension(integ.trial_proxies[n]) |->
                LET sd == <<integ.trial_proxies[n], e - 1>>
                IN  Evaluation("EvaluateDeriv", "trial",
                               SeedTrial(Pinned(NewProxyUserData, el, x),
                                         <<integ.trial_proxies[n], 0>>),
                               n, sd, NoSeed)]],
          Len(integ.trial_proxies))

ApplyEvaluations(integ, el, x) ==
  Flatten([n \in 1..Len(integ.trial_proxies) |->
             [e \in 1..Dimension(integ.trial_proxies[n]) |->
                LET sd == <<integ.trial_proxies[n], e - 1>>
                IN  Evaluation("EvaluateDeriv", "trial",
                               SeedTrial(Pinned(NewProxyUserData, el, x), sd),
                               n, sd, NoSeed)]],
          Len(integ.trial_proxies))

\* the ProxyUserData of a call before its first evaluation
ContextOnEntry(op, integ, el, r, x) ==
  CASE op \in {"CalcElementVector", "CalcElementMatrix"} -> NewProxyUserData
    [] op \in {"Energy", "ApplyElementMatrix"} -> Pinned(NewProxyUserData, el, x)
    [] op = "CalcLinearizedElementMatrix" -> LinearizedContext(integ, el, r, x)

EvaluationsOf(op, integ, tr, el, r, x) ==
  CASE op = "CalcElementVector" -> VectorEvaluations(integ)
    [] op = "CalcElementMatrix" ->
         IF integ.element_boundary
         THEN BoundaryEvaluations(integ, tr.SpaceDim, r)
         ELSE VolumeEvaluations(integ)
    [] op = "CalcLinearizedElementMatrix" -> LinearizedEvaluations(integ, el, r, x)
    [] op = "Energy" -> EnergyEvaluations(integ, el, x)
    [] op = "ApplyElementMatrix" -> ApplyEvaluations(integ, el, x)

(***************************************************************************)
(* The LocalHeap.  An allocation raises the level by the entries it takes; *)
(* the destructor of a HeapReset puts the level back to what it was when   *)
(* the HeapReset was constructed, also when an exception leaves the scope. *)
(* The operators give the level at the end of a scope less the level at    *)
(* its start.                                                              *)
(***************************************************************************)
HeapReset(allocated) == 0

\* trafo(ir, lh): the mapped rule and its points
MappedRule(r) == 1 + Len0(r)

RECURSIVE LevelSum(_, _, _)
LevelSum(f, lo, hi) ==
  IF hi < lo THEN 0
  ELSE IF lo = hi THEN f[lo]
  ELSE LevelSum(f, lo, (lo + hi) \div 2) + LevelSum(f, ((lo + hi) \div 2) + 1, hi)

\* T_CalcElementVector: HeapReset hr(lh) comes before every allocation
LocalHeap_CalcElementVector(integ, el, r) ==
  HeapReset(MappedRule(r) + NDof(el) + Len0(r)
            + LevelSum([n \in 1..Len(integ.proxies) |->
                          Len0(r) * Dimension(integ.proxies[n])],
                       1, Len(integ.proxies)))

\* the contraction of one pair: bmat1, bmat2, then a HeapReset per block
LocalHeap_Contract(proxy1, proxy2, el, r) ==
  (Dimension(proxy1) + Dimension(proxy2)) * NDof(el)
  + LevelSum([b \in 1..(Len0(r) \div BS) |->
                HeapReset(2 * BS * Dimension(proxy2) * NDof(el))],
             1, Len0(r) \div BS)
  + HeapReset(2 * (Len0(r) % BS) * Dimension(proxy2) * NDof(el))

\* T_CalcElementMatrix: mir is allocated before the pair loop, outside every
\* HeapReset; each pair has its own
LocalHeap_Volume(integ, el, r) ==
  LET n1 == Len(integ.trial_proxies)
      n2 == Len(integ.test_proxies)
  IN  MappedRule(r)
      + LevelSum([n \in 1..(n1 * n2) |->
                    LET proxy1 == integ.trial_proxies[((n - 1) \div n2) + 1]
                        proxy2 == integ.test_proxies[((n - 1) % n2) + 1]
                    IN  HeapReset(Len0(r)
                                  + LocalHeap_Contract(proxy1, proxy2, el, r))],
                 1, n1 * n2)

\* T_CalcElementMatrixEB: a HeapReset per facet, and per pair at each point
LocalHeap_Boundary(integ, D, el, r) ==
  LET n1 == Len(integ.trial_proxies)
      n2 == Len(integ.test_proxies)
  IN  LevelSum([k \in 1..GetNFacets(D) |->
                  HeapReset(2 * MappedRule(r)
                            + LevelSum([m \in 1..(Len0(r) * n1 * n2) |->
                                          HeapReset(4 * NDof(el))],
                                       1, Len0(r) * n1 * n2))],
               1, GetNFacets(D))

LocalHeap_CalcElementMatrix(integ, tr, el, r) ==
  IF integ.element_boundary
  THEN IF tr.SpaceDim \in {1, 2, 3}
       THEN LocalHeap_Boundary(integ, tr.SpaceDim, el, r)
       ELSE 0
  ELSE LocalHeap_Volume(integ, el, r)

\* CalcLinearizedElementMatrix: mir, val, deriv, dderiv, diags and each
\* diags[k1] are allocated outside every HeapReset, and so are bmat1 and bmat2
\* of every pair; only the blocks of a pair are released
LocalHeap_Linearized(integ, el, r) ==
  LET np == Len(integ.trial_proxies)
      first == MappedRule(r) + 3 * Len0(r) + np
  IN  IF np > 0 /\ CfThrows(Tree(integ.cf), <<NewProxyUserData>>, r)
      THEN first + Len0(r) * Dimension(integ.trial_proxies[1])
      ELSE first
           + LevelSum([k1 \in 1..np |->
                         Len0(r) * Dimension(integ.trial_proxies[k1])], 1, np)
           + LevelSum([n \in 1..(np * np) |->
                         LocalHeap_Contract(integ.trial_proxies[((n - 1) \div np) + 1],
                                            integ.trial_proxies[((n - 1) % np) + 1],
                                            el, r)],
                      1, np * np)

\* Energy: mir and values, no HeapReset
LocalHeap_Energy(r) == MappedRule(r) + Len0(r)

\* ApplyElementMatrix: HeapReset hr(lh) before mir, another one per proxy
LocalHeap_ApplyElementMatrix(integ, el, r) ==
  HeapReset(MappedRule(r) + 3 * Len0(r) + NDof(el)
            + LevelSum([n \in 1..Len(integ.trial_proxies) |-> HeapReset(Len0(r))],
                       1, Len(integ.trial_proxies)))

\* the level at the return (or the throw) of a call, less the level at entry
LocalHeapGrowth(op, integ, tr, el, r) ==
  CASE op = "CalcElementVector" -> LocalHeap_CalcElementVector(integ, el, r)
    [] op = "CalcElementMatrix" -> LocalHeap_CalcElementMatrix(integ, tr, el, r)
    [] op = "CalcLinearizedElementMatrix" -> LocalHeap_Linearized(integ, el, r)
    [] op = "Energy" -> LocalHeap_Energy(r)
    [] op = "ApplyElementMatrix" -> LocalHeap_ApplyElementMatrix(integ, el, r)

(***************************************************************************)
(* generate_mat_kernels.cpp: the kernels the generator writes to           *)
(* matkernel.hpp, each modelled by what its emitted statements compute.    *)
(* A matrix is a function from the row index to the row, all from 0.       *)
(***************************************************************************)
\* SIMD<double>::Size()
SW == 2

OPs == {"ADD", "SUB", "SET", "SETNEG"}

\* "SIMD<double> sum(0);" for SET and SETNEG, "SIMD<double> sum(pc...);" for
\* ADD and SUB
SumInit(op, c) == IF op \in {"SET", "SETNEG"} THEN RZero ELSE c

\* "FMAasm(a,b,sum);" or "sum += a * b;" for ADD and SET, "sum -= a * b;" for
\* SUB and SETNEG
SumStep(op, sum, a, b) ==
  IF op \in {"ADD", "SET"} THEN RAdd(sum, RMul(a, b)) ELSE RSub(sum, RMul(a, b))

\* the accumulator of entry (i, j) after the first n steps of the inner loop
RECURSIVE InnerLoop(_, _, _, _, _, _, _)
InnerLoop(op, sum, A, B, i, j, n) ==
  IF n = 0 THEN sum
  ELSE SumStep(op, InnerLoop(op, sum, A, B, i, j, n - 1), A[i][n - 1], B[n - 1][j])

\* GenerateMultAB: MatKernelMultAB<h, w, op>(n, pa, da, pb, db, pc, dc),
\* A is h x n, B is n x w*SW, C is h x w*SW
MatKernelMultAB(h, w, op, n, A, B, C) ==
  FlatMatrix([i \in 0..(h - 1) |->
                [j \in 0..(w * SW - 1) |->
                   InnerLoop(op, SumInit(op, C[i][j]), A, B, i, j, n)]])

\* GenerateShortSum, first kernel: MatKernelShortSum<wa, op>(ha, wb, ...),
\* A is ha x wa, B is wa x wb, C is ha x wb; the columns of the full SIMD
\* blocks and the masked columns of the rest get the same statements
MatKernelShortSum(wa, op, ha, wb, A, B, C) ==
  FlatMatrix([i \in 0..(ha - 1) |->
                [j \in 0..(wb - 1) |->
                   InnerLoop(op, SumInit(op, C[i][j]), A, B, i, j, wa)]])

\* GenerateShortSum, second kernel: MatKernelShortSum2<wa, op>(ha, wb, ...),
\* B unrolled by two SIMD blocks.  In the main loop and in the three
\* branches of the rest (rest > SW, rest = SW, rest < SW) the statements
\* emitted are "SIMD<double> sum = 0.0;" and "sum += ...;" whatever op is
MatKernelShortSum2(wa, op, ha, wb, A, B, C) ==
  LET rest == wb % (2 * SW)
      Main(i, j) == InnerLoop("SET", RZero, A, B, i, j, wa)
      RestAboveSW(i, j) == InnerLoop("SET", RZero, A, B, i, j, wa)
      RestIsSW(i, j) == InnerLoop("SET", RZero, A, B, i, j, wa)
      RestBelowSW(i, j) == InnerLoop("SET", RZero, A, B, i, j, wa)
  IN  FlatMatrix([i \in 0..(ha - 1) |->
                    [j \in 0..(wb - 1) |->
                       IF j < wb - rest THEN Main(i, j)
                       ELSE IF rest > SW THEN RestAboveSW(i, j)
                       ELSE IF rest = SW THEN RestIsSW(i, j)
                       ELSE RestBelowSW(i, j)]])

\* main: the specialisations written to matkernel.hpp
EmittedMultAB ==
  [kernel : {"MatKernelMultAB"}, h : 1..MaxKernelDim, w : 1..MaxKernelDim, op : OPs]
EmittedShortSum ==
  [kernel : {"MatKernelShortSum", "MatKernelShortSum2"}, wa : 0..MaxKernelDim,
   op : {"SET", "ADD"}]

\* the operands of a call: entry (i, j) from a seed
KernelMatrix(s, h, w) ==
  FlatMatrix([i \in 0..(h - 1) |-> [j \in 0..(w - 1) |->
                RInt(((s + 2 * i + 3 * j) % 5) - 2)]])
KernelBuffer(s, h, w) ==
  FlatMatrix([i \in 0..(h - 1) |-> [j \in 0..(w - 1) |->
                RInt(1 + ((s + i + 2 * j) % 3))]])

(***************************************************************************)
(* Inputs: the element, the mapped integration rule and the dof vector     *)
(***************************************************************************)
\* a mapped integration point: its coordinate x and its weight w
\* (mir[i].GetWeight(), Jacobian included)
MkRule(n, s) == Stored(
  [i \in 0..(n - 1) |->
     [x |-> (s + i) % 2, w |-> 1 + ((s + i) % MaxWeight)]])

\* the empty rule, and for every size two rules: one starting at the point
\* (x = 0, w = 1), the other at (x = 1, w = 2)
Rules == {MkRule(0, 0)} \cup {MkRule(n, s) : n \in 1..MaxPoints, s \in 0..1}

\* dof vectors: entry j is (3 d - 1) (j + 1) - j
MkElx(el, d) == Stored([j \in 0..(NDof(el) - 1) |-> RInt((3 * d - 1) * (j + 1) - j)])
DofVectors(el) == {MkElx(el, d) : d \in 0..MaxDofVal}

VARIABLES
  fel,        \* the finite element of the calls
  mir,        \* the mapped integration rule trafo(ir, lh) of the calls
  elx,        \* the dof vector handed to the energy integrator
  ctx,        \* proxy protocol: the pointer found in trafo.userdata
  pcall,      \* the last call of a proxy or a kernel and what it wrote
  cf,         \* the expression the integrator is built from
  trafo,      \* the ElementTransformation: its SpaceDim()
  userdata,   \* trafo.userdata
  integ,      \* the integrator object
  lastop,     \* the operation that returned (or threw) last
  thrown,     \* whether it threw
  visited,    \* nodes the last constructor's visitor was called on
  elmat,      \* the caller's matrix buffer
  elvec,      \* the caller's vector buffer
  ret,        \* the value Energy returned last
  ncalls,     \* calls made on the integrator so far
  proxyvalues, \* the weighted tensors of the last CalcLinearizedElementMatrix
  lh,         \* the LocalHeap: entries in use above the level at the first call
  wtrafo,     \* concurrent calls: the ElementTransformation each worker uses
  slots,      \* concurrent calls: userdata of each ElementTransformation
  frames,     \* concurrent calls: the ProxyUserData on each worker's stack
  wcall,      \* concurrent calls: each worker's call in progress
  wread       \* concurrent calls: each worker's last proxy evaluation

vars == <<fel, mir, elx, ctx, pcall, cf, trafo, userdata, integ, lastop, thrown,
          visited, elmat, elvec, ret, ncalls, proxyvalues, lh, wtrafo, slots,
          frames, wcall, wread>>

seqvars == <<cf, trafo, userdata, integ, lastop, thrown, visited, elmat, elvec,
             ret, ncalls, proxyvalues, lh>>
inputs == <<fel, mir, elx>>
concvars == <<wtrafo, slots, frames, wcall, wread>>

ConcIdle ==
  /\ wtrafo = << >>
  /\ slots = << >>
  /\ frames = << >>
  /\ wcall = << >>
  /\ wread = << >>

SeqIdle ==
  /\ cf = <<"none", 0>>
  /\ trafo = [SpaceDim |-> 0]
  /\ userdata = NullPtr
  /\ integ = NoIntegrator
  /\ lastop = "none"
  /\ thrown = FALSE
  /\ visited = 0
  /\ elmat = << >>
  /\ elvec = << >>
  /\ ret = RZero
  /\ ncalls = 0
  /\ proxyvalues = << >>
  /\ lh = 0

(***************************************************************************)
(* The proxy protocol on its own: a ProxyUserData in one of the states the *)
(* integrators put it in is attached, and expression nodes evaluate        *)
(* proxies against it.                                                     *)
(***************************************************************************)
TrialProxies == {p \in Proxies : ~IsTestFunction(p)}
TestProxies == {p \in Proxies : IsTestFunction(p)}
Seeds(ps) == {<<p, k>> : p \in ps, k \in 0..1} \ {<<"u1", 1>>, <<"v1", 1>>}

Remembered(ud, el, r, x) ==
  [ud EXCEPT !.remember = [p \in TrialProxies |-> ApplyRule(Evaluator(p), el, r, x)]]

\* the states of a ProxyUserData during the calls of the integrators
ProgramContexts(el, r, x) ==
  {NewProxyUserData}
  \cup {SeedTest(NewProxyUserData, sd) : sd \in Seeds(Proxies)}
  \cup {SeedTest(SeedTrial(NewProxyUserData, s1), s2) :
          s1 \in Seeds(TrialProxies), s2 \in Seeds(TestProxies)}
  \cup {Pinned(NewProxyUserData, el, x)}
  \cup {SeedTrial(Pinned(NewProxyUserData, el, x), s1) : s1 \in Seeds(TrialProxies)}
  \cup {SeedTest(SeedTrial(Remembered(Pinned(NewProxyUserData, el, x), el, r, x), s1), s2) :
          s1 \in Seeds(TrialProxies), s2 \in Seeds(TrialProxies)}

NoCall == [fn |-> "none"]

ProxyInit ==
  /\ fel \in Elements
  /\ mir \in Rules
  /\ elx \in DofVectors(fel)
  /\ ctx = << >>
  /\ pcall = NoCall
  /\ SeqIdle
  /\ ConcIdle

Attach ==
  /\ \E ud \in ProgramContexts(fel, mir, elx) : ctx' = <<ud>>
  /\ pcall' = NoCall
  /\ UNCHANGED <<fel, mir, elx, seqvars, concvars>>

CallEvaluate ==
  /\ \E this \in Proxies, i \in DOMAIN mir :
       pcall' = [fn |-> "Evaluate", this |-> this, point |-> i,
                 out |-> ProxyEvaluate(this, ctx, mir[i])]
  /\ UNCHANGED <<fel, mir, elx, ctx, seqvars, concvars>>

CallEvaluateDeriv ==
  /\ \E this \in Proxies :
       pcall' = [fn |-> "EvaluateDeriv", this |-> this,
                 out |-> ProxyEvaluateDeriv(this, ctx, mir)]
  /\ UNCHANGED <<fel, mir, elx, ctx, seqvars, concvars>>

CallEvaluateDDeriv ==
  /\ \E this \in Proxies :
       pcall' = [fn |-> "EvaluateDDeriv", this |-> this,
                 out |-> ProxyEvaluateDDeriv(this, ctx, mir)]
  /\ UNCHANGED <<fel, mir, elx, ctx, seqvars, concvars>>

ProxyNext == Attach \/ CallEvaluate \/ CallEvaluateDeriv \/ CallEvaluateDDeriv

SpecProxy == ProxyInit /\ [][ProxyNext]_vars

(***************************************************************************)
(* The integrators, called one after the other on one geometry mapping.    *)
(* Each action is a whole constructor or a whole call.  No call is in      *)
(* progress in any state, so every ProxyUserData a call created on its     *)
(* stack is dead: userdata = "&ud" is a pointer to such a dead object.     *)
(***************************************************************************)
SpaceDims == {2, 3, 4}
InitialMat(el) ==
  [i \in 0..(NDof(el) - 1) |-> [j \in 0..(NDof(el) - 1) |-> RInt(i + 2 * j + 1)]]
InitialVec(el) == [i \in 0..(NDof(el) - 1) |-> RInt(i + 1)]

ProxyIdle == ctx = << >> /\ pcall = NoCall

Init ==
  /\ fel \in Elements
  /\ mir \in Rules
  /\ elx \in DofVectors(fel)
  /\ cf \in Exprs
  /\ trafo \in [SpaceDim : SpaceDims]
  /\ userdata = NullPtr
  /\ integ = NoIntegrator
  /\ lastop = "none"
  /\ thrown = FALSE
  /\ visited = 0
  /\ elmat = InitialMat(fel)
  /\ elvec = InitialVec(fel)
  /\ ret = RZero
  /\ ncalls = 0
  /\ proxyvalues = << >>
  /\ lh = 0
  /\ ProxyIdle
  /\ ConcIdle

Constructed(op, c) ==
  /\ integ.kind = "none"
  /\ integ' = c.obj
  /\ thrown' = c.thrown
  /\ visited' = c.visited
  /\ lastop' = op
  /\ UNCHANGED <<cf, trafo, userdata, elmat, elvec, ret, ncalls, proxyvalues,
                 lh, inputs, ctx, pcall, concvars>>

ConstructLFI ==
  Constructed("SymbolicLinearFormIntegrator", SymbolicLinearFormIntegrator(cf))

ConstructBFI ==
  \E aelement_boundary \in BOOLEAN :
    Constructed("SymbolicBilinearFormIntegrator",
                SymbolicBilinearFormIntegrator(cf, aelement_boundary))

ConstructEnergy ==
  Constructed("SymbolicEnergy", SymbolicEnergy(cf))

CalcElementVector ==
  /\ integ.kind = "lfi"
  /\ ncalls < MaxCalls
  /\ ncalls' = ncalls + 1
  /\ \E c \in {T_CalcElementVector(integ, fel, mir)} :
       /\ elvec' = FlatVector(c.elvec)
       /\ userdata' = c.userdata
       /\ thrown' = c.thrown
  /\ lastop' = "CalcElementVector"
  /\ lh' = lh + LocalHeapGrowth("CalcElementVector", integ, trafo, fel, mir)
  /\ UNCHANGED <<cf, trafo, integ, visited, elmat, ret, proxyvalues, inputs,
                 ctx, pcall, concvars>>

CalcElementMatrix ==
  /\ integ.kind = "bfi"
  /\ ncalls < MaxCalls
  /\ ncalls' = ncalls + 1
  /\ \E c \in {T_CalcElementMatrix(integ, trafo, fel, mir, userdata, elmat)} :
       /\ elmat' = FlatMatrix(c.elmat)
       /\ userdata' = c.userdata
       /\ thrown' = c.thrown
  /\ lastop' = "CalcElementMatrix"
  /\ lh' = lh + LocalHeapGrowth("CalcElementMatrix", integ, trafo, fel, mir)
  /\ UNCHANGED <<cf, trafo, integ, visited, elvec, ret, proxyvalues, inputs,
                 ctx, pcall, concvars>>

CalcLinearized ==
  /\ integ.kind = "energy"
  /\ ncalls < MaxCalls
  /\ ncalls' = ncalls + 1
  /\ \E c \in {CalcLinearizedElementMatrix(integ, fel, mir, elx)} :
       /\ elmat' = FlatMatrix(c.elmat)
       /\ userdata' = c.userdata
       /\ thrown' = c.thrown
       /\ proxyvalues' = Tensors(c.proxyvalues)
  /\ lastop' = "CalcLinearizedElementMatrix"
  /\ lh' = lh + LocalHeapGrowth("CalcLinearizedElementMatrix", integ, trafo, fel, mir)
  /\ UNCHANGED <<cf, trafo, integ, visited, elvec, ret, inputs, ctx, pcall,
                 concvars>>

CallApplyElementMatrix ==
  /\ integ.kind = "energy"
  /\ ncalls < MaxCalls
  /\ ncalls' = ncalls + 1
  /\ \E c \in {ApplyElementMatrix(integ, fel, mir, elx)} :
       /\ elvec' = FlatVector(c.ely)
       /\ userdata' = c.userdata
       /\ thrown' = c.thrown
  /\ lastop' = "ApplyElementMatrix"
  /\ lh' = lh + LocalHeapGrowth("ApplyElementMatrix", integ, trafo, fel, mir)
  /\ UNCHANGED <<cf, trafo, integ, visited, elmat, ret, proxyvalues, inputs,
                 ctx, pcall, concvars>>

CallEnergy ==
  /\ integ.kind = "energy"
  /\ ncalls < MaxCalls
  /\ ncalls' = ncalls + 1
  /\ \E c \in {Energy(integ, fel, mir, elx)} :
       /\ ret' = IF c.thrown THEN ret ELSE c.sum
       /\ userdata' = c.userdata
       /\ thrown' = c.thrown
  /\ lastop' = "Energy"
  /\ lh' = lh + LocalHeapGrowth("Energy", integ, trafo, fel, mir)
  /\ UNCHANGED <<cf, trafo, integ, visited, elmat, elvec, proxyvalues, inputs,
                 ctx, pcall, concvars>>

Next ==
  \/ ConstructLFI
  \/ ConstructBFI
  \/ ConstructEnergy
  \/ CalcElementVector
  \/ CalcElementMatrix
  \/ CalcLinearized
  \/ CallApplyElementMatrix
  \/ CallEnergy

Spec == Init /\ [][Next]_vars

\* ---------------------------------------------------------------------
\* The bilinear-form integrator on its own: every bilinear integrand, volume
\* and element-boundary, every space dimension the dispatch distinguishes.
BilinearSpaceDims == {1, 2, 3, 4}

BilinearInit ==
  /\ fel \in Elements
  /\ mir \in Rules
  /\ elx = MkElx(fel, 0)
  /\ cf \in BilinearExprs
  /\ trafo \in [SpaceDim : BilinearSpaceDims]
  /\ userdata = NullPtr
  /\ integ = NoIntegrator
  /\ lastop = "none"
  /\ thrown = FALSE
  /\ visited = 0
  /\ elmat = InitialMat(fel)
  /\ elvec = InitialVec(fel)
  /\ ret = RZero
  /\ ncalls = 0
  /\ proxyvalues = << >>
  /\ lh = 0
  /\ ProxyIdle
  /\ ConcIdle

BilinearNext == ConstructBFI \/ CalcElementMatrix

SpecBilinear == BilinearInit /\ [][BilinearNext]_vars

\* ---------------------------------------------------------------------
\* The contraction of one proxy pair on its own: the accumulation of one
\* pair's weighted tensor into elmat, as the volume part of
\* T_CalcElementMatrix, CalcLinearizedElementMatrix and
\* T_CalcElementMatrixEB do it, on rules of every size class of the blocking.
ContractRuleSizes ==
  {0, 1, BS - 1, BS, BS + 1, MaxBlocks * BS, MaxBlocks * BS + 1}
ContractRules == {MkRule(n, s) : n \in ContractRuleSizes, s \in 0..1}

\* proxyvalues of one pair after the weighting: sample values s, s+1, ..
\* (mod 4, shifted to -1..2) times the weight of the point
SampleTensor(s, proxy1, proxy2, r) ==
  WeightTensor(
    [i \in DOMAIN r |->
       [l \in 0..(Dimension(proxy2) - 1) |->
          [k \in 0..(Dimension(proxy1) - 1) |->
             RInt(((i + 2 * l + 3 * k + s) % 4) - 1)]]], r)

ContractInit ==
  /\ fel \in Elements
  /\ mir \in ContractRules
  /\ elx = MkElx(fel, 0)
  /\ cf = <<"mix", 0>>
  /\ trafo = [SpaceDim |-> 2]
  /\ userdata = "&ud"
  /\ integ = NoIntegrator
  /\ lastop = "none"
  /\ thrown = FALSE
  /\ visited = 0
  /\ elmat \in {InitialMat(fel), ZeroMat(NDof(fel), NDof(fel))}
  /\ elvec = InitialVec(fel)
  /\ ret = RZero
  /\ ncalls = 0
  /\ proxyvalues = << >>
  /\ lh = 0
  /\ ProxyIdle
  /\ ConcIdle

\* the pair being processed, kept in integ: (trial_proxies[1], test_proxies[1])
PairIntegrator(kind, proxy1, proxy2, eb) ==
  [NoIntegrator EXCEPT !.kind = kind, !.cf = cf,
                       !.trial_proxies = <<proxy1>>, !.test_proxies = <<proxy2>>,
                       !.element_boundary = eb]

Contracted(op, obj, pv, result) ==
  /\ lastop = "none"
  /\ lastop' = op
  /\ integ' = obj
  /\ proxyvalues' = Tensor3(pv)
  /\ elmat' = FlatMatrix(result)
  /\ UNCHANGED <<cf, trafo, userdata, thrown, visited, elvec, ret, ncalls,
                 lh, inputs, ctx, pcall, concvars>>

\* T_CalcElementMatrix, lines 357-407, for one pair
ContractVolume ==
  \E proxy1 \in TrialProxies, proxy2 \in TestProxies, s \in 0..1 :
    LET pv == SampleTensor(s, proxy1, proxy2, mir)
    IN  Contracted("ContractVolume",
                   PairIntegrator("bfi", proxy1, proxy2, FALSE), pv,
                   Contract(elmat, proxy1, proxy2, pv, fel, mir, 0))

\* CalcLinearizedElementMatrix, lines 619-660, for one pair of trial proxies
ContractLinearized ==
  \E proxy1 \in TrialProxies, proxy2 \in TrialProxies, s \in 0..1 :
    LET pv == SampleTensor(s, proxy1, proxy2, mir)
    IN  Contracted("ContractLinearized",
                   PairIntegrator("energy", proxy1, proxy2, FALSE), pv,
                   ContractFull(elmat, proxy1, proxy2, pv, fel, mir, 0))

\* T_CalcElementMatrixEB, lines 458-482, for one pair at the first point of
\* the first facet
ContractBoundary ==
  /\ Len0(mir) > 0
  /\ \E proxy1 \in TrialProxies, proxy2 \in TestProxies :
       LET obj == PairIntegrator("bfi", proxy1, proxy2, TRUE)
           mip == FacetRule(mir, 0)[0]
           len == SurfaceMeasure(trafo.SpaceDim, 0)
       IN  Contracted("ContractBoundary", obj,
                      <<EBProxyValues(obj, proxy1, proxy2, mip, len)>>,
                      MatAdd(elmat,
                             EBPairProduct(obj, proxy1, proxy2, fel, mip, len)))

ContractNext == ContractVolume \/ ContractLinearized \/ ContractBoundary

SpecContract == ContractInit /\ [][ContractNext]_vars

\* ---------------------------------------------------------------------
\* The calls step by step: a call attaches its ProxyUserData, issues its
\* expression evaluations one after the other, and returns its output.
LoopExprs == {<<"uv", 0>>, <<"mix", 0>>, <<"lin", 0>>, <<"quad", 1>>}

LoopIntegrators(c) ==
  {SymbolicLinearFormIntegrator(c).obj, SymbolicEnergy(c).obj}
  \cup {SymbolicBilinearFormIntegrator(c, eb).obj : eb \in BOOLEAN}

OpsOf(kind) ==
  CASE kind = "lfi" -> {"CalcElementVector"}
    [] kind = "bfi" -> {"CalcElementMatrix"}
    [] kind = "energy" ->
         {"CalcLinearizedElementMatrix", "ApplyElementMatrix", "Energy"}

LoopsInit ==
  /\ fel \in Elements
  /\ mir \in Rules
  /\ elx \in DofVectors(fel)
  /\ cf \in LoopExprs
  /\ integ \in LoopIntegrators(cf)
  /\ trafo = [SpaceDim |-> 2]
  /\ userdata = NullPtr
  /\ lastop = "none"
  /\ thrown = FALSE
  /\ visited = 0
  /\ elmat = InitialMat(fel)
  /\ elvec = InitialVec(fel)
  /\ ret = RZero
  /\ ncalls = 0
  /\ proxyvalues = << >>
  /\ lh = 0
  /\ ProxyIdle
  /\ ConcIdle

\* ProxyUserData ud; trafo.userdata = &ud; ud.fel = ...; ud.remember[...]
EnterCall ==
  /\ pcall.fn = "none"
  /\ ncalls < MaxCalls
  /\ \E op \in OpsOf(integ.kind) :
       /\ lastop' = op
       /\ ctx' = <<ContextOnEntry(op, integ, fel, mir, elx)>>
  /\ ncalls' = ncalls + 1
  /\ userdata' = "&ud"
  /\ pcall' = [fn |-> "enter", step |-> 0]
  /\ UNCHANGED <<cf, trafo, integ, thrown, visited, elmat, elvec, ret,
                 proxyvalues, lh, inputs, concvars>>

\* the next evaluation of the loops: the seeds are assigned, cf is evaluated
IssueEvaluation ==
  /\ pcall.fn # "none"
  /\ \E evs \in {EvaluationsOf(lastop, integ, trafo, fel, mir, elx)} :
       /\ pcall.step < Len(evs)
       /\ ctx' = <<evs[pcall.step + 1].ud>>
       /\ pcall' = [evs[pcall.step + 1] EXCEPT !.ud = pcall.step + 1] @@
                    [step |-> pcall.step + 1]
  /\ UNCHANGED <<seqvars, inputs, concvars>>

\* the end of the loops: the output is complete, ud goes out of scope
ReturnFromCall ==
  /\ pcall.fn # "none"
  /\ pcall.step = Len(EvaluationsOf(lastop, integ, trafo, fel, mir, elx))
  /\ pcall' = NoCall
  /\ ctx' = << >>
  /\ elvec' = CASE lastop = "CalcElementVector" ->
                   FlatVector(T_CalcElementVector(integ, fel, mir).elvec)
               [] lastop = "ApplyElementMatrix" ->
                   FlatVector(ApplyElementMatrix(integ, fel, mir, elx).ely)
               [] OTHER -> elvec
  /\ elmat' = CASE lastop = "CalcElementMatrix" ->
                   FlatMatrix(T_CalcElementMatrix(integ, trafo, fel, mir,
                                                  userdata, elmat).elmat)
               [] lastop = "CalcLinearizedElementMatrix" ->
                   FlatMatrix(CalcLinearizedElementMatrix(integ, fel, mir, elx).elmat)
               [] OTHER -> elmat
  /\ ret' = IF lastop = "Energy" THEN Energy(integ, fel, mir, elx).sum ELSE ret
  /\ lh' = lh + LocalHeapGrowth(lastop, integ, trafo, fel, mir)
  /\ UNCHANGED <<cf, trafo, userdata, integ, lastop, thrown, visited, ncalls,
                 proxyvalues, inputs, concvars>>

LoopsNext == EnterCall \/ IssueEvaluation \/ ReturnFromCall

SpecLoops == LoopsInit /\ [][LoopsNext]_vars

\* ---------------------------------------------------------------------
\* ProxyFunction::Dimensions on its own: a proxy whose evaluator has any
\* Dim() and any BlockDim() >= 1; pcall.this is the evaluator of the proxy.
Evaluators == [Dim : 0..MaxDim, BlockDim : 1..MaxBlockDim]

DimsInit ==
  /\ fel = "one"
  /\ mir = << >>
  /\ elx = MkElx(fel, 0)
  /\ ctx = << >>
  /\ pcall \in {[fn |-> "none", this |-> evaluator] : evaluator \in Evaluators}
  /\ SeqIdle
  /\ ConcIdle

CallDimensions ==
  /\ pcall.fn = "none"
  /\ pcall' = [fn |-> "Dimensions", this |-> pcall.this,
               out |-> Dimensions(pcall.this.Dim, pcall.this.BlockDim)]
  /\ UNCHANGED <<fel, mir, elx, ctx, seqvars, concvars>>

DimsNext == CallDimensions

SpecDims == DimsInit /\ [][DimsNext]_vars

\* ---------------------------------------------------------------------
\* The generated kernels on their own: pcall holds the specialisation, the
\* sizes and the operands of a call, and after the call the content of C.
KernelCalls ==
  {[fn |-> "none", kernel |-> e.kernel, op |-> e.op, h |-> e.h, w |-> e.w * SW,
    n |-> n, A |-> KernelMatrix(s, e.h, n), B |-> KernelMatrix(s + 1, n, e.w * SW),
    C |-> KernelBuffer(s, e.h, e.w * SW)] :
     e \in EmittedMultAB, n \in 0..MaxKernelDim, s \in 0..1}
  \cup
  {[fn |-> "none", kernel |-> e.kernel, op |-> e.op, h |-> ha, w |-> wb,
    n |-> e.wa, A |-> KernelMatrix(s, ha, e.wa), B |-> KernelMatrix(s + 1, e.wa, wb),
    C |-> KernelBuffer(s, ha, wb)] :
     e \in EmittedShortSum, ha \in 1..MaxKernelDim, wb \in 1..(2 * SW + 1),
     s \in 0..1}

KernelsInit ==
  /\ fel = "one"
  /\ mir = << >>
  /\ elx = MkElx(fel, 0)
  /\ ctx = << >>
  /\ pcall \in KernelCalls
  /\ SeqIdle
  /\ ConcIdle

KernelCalled(kernel, out) ==
  /\ pcall.fn = "none"
  /\ pcall.kernel = kernel
  /\ pcall' = [pcall EXCEPT !.fn = "returned"] @@ [out |-> out]
  /\ UNCHANGED <<fel, mir, elx, ctx, seqvars, concvars>>

CallMatKernelMultAB ==
  KernelCalled("MatKernelMultAB",
               MatKernelMultAB(pcall.h, pcall.w \div SW, pcall.op, pcall.n,
                               pcall.A, pcall.B, pcall.C))

CallMatKernelShortSum ==
  KernelCalled("MatKernelShortSum",
               MatKernelShortSum(pcall.n, pcall.op, pcall.h, pcall.w,
                                 pcall.A, pcall.B, pcall.C))

CallMatKernelShortSum2 ==
  KernelCalled("MatKernelShortSum2",
               MatKernelShortSum2(pcall.n, pcall.op, pcall.h, pcall.w,
                                  pcall.A, pcall.B, pcall.C))

KernelsNext ==
  CallMatKernelMultAB \/ CallMatKernelShortSum \/ CallMatKernelShortSum2

SpecKernels == KernelsInit /\ [][KernelsNext]_vars

(***************************************************************************)
(* Properties of the proxy protocol (checked under SpecProxy)              *)
(***************************************************************************)
Called == pcall.fn # "none"
IsActiveTest(this) == ctx # << >> /\ ctx[1].testfunction = this
IsActiveTrial(this) == ctx # << >> /\ ctx[1].trialfunction = this
ElementPinned == ctx # << >> /\ ctx[1].fel # NullPtr
\* the one-hot marks of the seeds that name the proxy
SeedMarks(this) ==
  [c \in 0..(Dimension(this) - 1) |->
     IF \/ (IsActiveTest(this) /\ c = ctx[1].test_comp)
        \/ (IsActiveTrial(this) /\ c = ctx[1].trial_comp)
     THEN ROne ELSE RZero]
\* the points an evaluation covered
CallPoints == IF pcall.fn = "Evaluate" THEN {pcall.point} ELSE DOMAIN mir
AllZero(m) == \A i \in DOMAIN m : \A c \in DOMAIN m[i] : m[i][c] = RZero
WroteNothingButZero ==
  CASE pcall.fn = "Evaluate" -> pcall.out.result = ZeroVec(Dimension(pcall.this))
    [] pcall.fn = "EvaluateDeriv" ->
         AllZero(pcall.out.result) /\ AllZero(pcall.out.deriv)
    [] pcall.fn = "EvaluateDDeriv" ->
         AllZero(pcall.out.result) /\ AllZero(pcall.out.deriv)
         /\ AllZero(pcall.out.dderiv)

\* C2 (as claimed): a proxy evaluated while it is neither the active test
\* nor the active trial proxy and no element is pinned reports the
\* missing-context error, also when a context object is attached.
C2_ThrowsWheneverUnseededAndUnpinned ==
  (Called /\ ~IsActiveTest(pcall.this) /\ ~IsActiveTrial(pcall.this)
     /\ ~ElementPinned)
  => pcall.out.thrown

\* C2 (amended): Evaluate, EvaluateDeriv and EvaluateDDeriv report the
\* missing-context error exactly when trafo.userdata is null; with a context
\* attached that names the proxy in no seed and pins no element they raise
\* nothing and write zeros.
C2_ThrowsIffUserdataNull ==
  Called =>
    /\ pcall.out.thrown <=> (ctx = << >>)
    /\ (ctx # << >> /\ ~IsActiveTest(pcall.this) /\ ~IsActiveTrial(pcall.this)
          /\ ~ElementPinned)
       => WroteNothingButZero

\* C2 witness: a proxy is evaluated against an attached context that carries
\* no seed and no pinned element, and no error is raised.
C2_Witness ==
  /\ pcall.fn = "Evaluate"
  /\ ctx = <<NewProxyUserData>>
  /\ ~pcall.out.thrown

\* C5 (as claimed): point-wise Evaluate on the active test or trial proxy
\* writes the one-hot vector also when an element is pinned; the operator is
\* applied to the pinned dofs for a proxy that is pinned and not seeded, and
\* zero is written when neither case applies.
C5_SeededProxyAlwaysOneHot ==
  (pcall.fn = "Evaluate" /\ ~pcall.out.thrown) =>
    LET this == pcall.this
        active == IsActiveTest(this) \/ IsActiveTrial(this)
    IN  /\ active => pcall.out.result = SeedMarks(this)
        /\ (~active /\ ElementPinned) =>
             pcall.out.result =
               Apply(Evaluator(this), fel, mir[pcall.point], elx)
        /\ (~active /\ ~ElementPinned) =>
             pcall.out.result = ZeroVec(Dimension(this))

\* C5 (amended): point-wise Evaluate on a proxy that is not a test function
\* applies the operator to the pinned dof vector whenever an element is
\* pinned, whether or not a seed names the proxy; in every other case it
\* writes 0 everywhere except 1 at the component of each seed naming it.
C5_PinnedFieldBeforeSeeds ==
  (pcall.fn = "Evaluate" /\ ~pcall.out.thrown) =>
    LET this == pcall.this
    IN  IF ~IsTestFunction(this) /\ ElementPinned
        THEN pcall.out.result =
               Apply(Evaluator(this), fel, mir[pcall.point], elx)
        ELSE pcall.out.result = SeedMarks(this)

\* C5 witness: Evaluate on the active trial proxy while an element and a
\* non-zero dof vector are pinned.
C5_Witness ==
  /\ pcall.fn = "Evaluate"
  /\ ~pcall.out.thrown
  /\ IsActiveTrial(pcall.this)
  /\ ElementPinned
  /\ pcall.out.result # SeedMarks(pcall.this)

\* C6 (as claimed): EvaluateDDeriv sets column (active component) of dderiv
\* to 1 at every point for each seed naming the proxy, 0 in other columns.
C6_MarksInDDeriv ==
  (pcall.fn = "EvaluateDDeriv" /\ ~pcall.out.thrown) =>
    \A i \in DOMAIN mir : pcall.out.dderiv[i] = SeedMarks(pcall.this)

\* C6 (amended): EvaluateDDeriv sets column (active component) of deriv to
\* 1 at every point for each seed naming the proxy, both columns when both
\* seeds name it, deriv is 0 in all other columns, and dderiv is 0
\* everywhere.
C6_MarksInDerivAndDDerivZero ==
  (pcall.fn = "EvaluateDDeriv" /\ ~pcall.out.thrown) =>
    \A i \in DOMAIN mir :
      /\ pcall.out.deriv[i] = SeedMarks(pcall.this)
      /\ pcall.out.dderiv[i] = ZeroVec(Dimension(pcall.this))

\* C6 witness: EvaluateDDeriv over a non-empty rule on a proxy that both
\* seeds name, at different components.
C6_Witness ==
  /\ pcall.fn = "EvaluateDDeriv"
  /\ ~pcall.out.thrown
  /\ DOMAIN mir # {}
  /\ IsActiveTest(pcall.this) /\ IsActiveTrial(pcall.this)
  /\ ctx[1].test_comp # ctx[1].trial_comp

(***************************************************************************)
(* Properties of the integrators (checked under Spec)                      *)
(***************************************************************************)
ConstructorNames ==
  {"SymbolicLinearFormIntegrator", "SymbolicBilinearFormIntegrator",
   "SymbolicEnergy"}
CallNames ==
  {"CalcElementVector", "CalcElementMatrix", "CalcLinearizedElementMatrix",
   "ApplyElementMatrix", "Energy"}
\* the sum of the weights of the rule
TotalWeight == RSum([i \in DOMAIN mir |-> RInt(mir[i].w)], 0, Len0(mir) - 1)

\* C1 (as claimed): after CalcElementVector, CalcElementMatrix,
\* CalcLinearizedElementMatrix, ApplyElementMatrix or Energy has returned,
\* trafo.userdata no longer refers to the ProxyUserData the call created on
\* its stack: the slot is detached (null).
C1_UserdataDetachedOnReturn ==
  (lastop \in CallNames /\ ~thrown) => userdata = NullPtr

\* C3 (as claimed): a call that raises an evaluation error leaves in the
\* caller's buffer either what the buffer held before the call or the zero
\* it was initialised with, never the contributions of only some pairs,
\* blocks or facets.
C3_NoPartialAccumulation ==
  [][(thrown' /\ lastop' \in CallNames)
       => /\ elmat' \in {elmat, ZeroMat(NDof(fel), NDof(fel))}
          /\ elvec' \in {elvec, ZeroVec(NDof(fel))}]_vars

\* C4: each of the three constructors throws exactly when the root of the
\* expression has a Dimension() other than 1; when it throws, the visitor
\* was called on no node and no proxy was collected; when it does not
\* throw, the object exists and the whole tree was traversed.
C4_ScalarRootCheckedBeforeTraversal ==
  (lastop \in ConstructorNames) =>
    /\ thrown <=> (CfDimension(Tree(cf)) # 1)
    /\ thrown => (visited = 0 /\ integ = NoIntegrator)
    /\ ~thrown => /\ integ.kind # "none"
                  /\ integ.cf = cf
                  /\ visited = Len(TraverseTree(Tree(cf)))

\* C4 witness: a constructor was handed the vector valued expression and
\* threw.
C4_Witness ==
  /\ lastop \in ConstructorNames
  /\ thrown
  /\ Len(TraverseTree(Tree(cf))) > 0

\* the position of component k of proxy p among the components of the
\* trial proxies, i.e. its row and column in the matrix A
CompIndex(p, k) == CHOOSE n \in 1..NComps : TrialComps[n] = <<p, k>>
\* the linearized matrix of a quadratic energy density has been computed
\* over a rule with at least one point
QuadLinearized ==
  /\ lastop = "CalcLinearizedElementMatrix"
  /\ ~thrown
  /\ cf[1] = "quad"
  /\ DOMAIN mir # {}
\* every entry (i, l, k) of the tensor of every pair of trial proxies is the
\* weight of point i times Coefficient(row, column), row and column being
\* the positions of (proxy2, l) and (proxy1, k)
TensorsAre(Coefficient(_, _)) ==
  LET np == Len(integ.trial_proxies)
  IN  \A n \in 1..(np * np) :
        LET proxy1 == integ.trial_proxies[((n - 1) \div np) + 1]
            proxy2 == integ.trial_proxies[((n - 1) % np) + 1]
        IN  \A i \in DOMAIN mir :
              \A l \in 0..(Dimension(proxy2) - 1) :
                \A k \in 0..(Dimension(proxy1) - 1) :
                  proxyvalues[n][i][l][k] =
                    RMul(RInt(mir[i].w),
                         RInt(Coefficient(CompIndex(proxy2, l),
                                          CompIndex(proxy1, k))))
EntryOfA(row, col) == QuadMats[cf[2]][row][col]
EntryOfAPlusTransposed(row, col) ==
  QuadMats[cf[2]][row][col] + QuadMats[cf[2]][col][row]

\* C8 (as claimed): for the energy density u^T A u the contraction
\* coefficients CalcLinearizedElementMatrix computes are, at every point,
\* the entries of A times the weight of the point, on and off the diagonal.
C8_CoefficientsAreA == QuadLinearized => TensorsAre(EntryOfA)

\* C8 (amended): for the energy density u^T A u the contraction
\* coefficients CalcLinearizedElementMatrix computes are, at every point,
\* the entries of A + A^T (the Hessian of u^T A u, which is 2 A for a
\* symmetric A) times the weight of the point, on the diagonal (the raw
\* directional second derivative) and off the diagonal (after the
\* polarization) alike.
C8_CoefficientsAreHessian == QuadLinearized => TensorsAre(EntryOfAPlusTransposed)

\* C8 witness: the linearized matrix of u^T A u for the matrix A that is not
\* symmetric, on the element whose trial proxies have three components.
C8_Witness ==
  /\ QuadLinearized
  /\ cf[2] = 2
  /\ fel = "cmp"
  /\ Len(integ.trial_proxies) = 2

\* Scenario B: the energy integrator of 0.5*u*u on the element with one dof
\* and the identity operator
ScenarioB ==
  /\ integ.kind = "energy"
  /\ cf = <<"half_u2", 0>>
  /\ fel = "one"
  /\ ~thrown

\* C9: in Scenario B, with u the dof value and M the sum of the weights of
\* the rule, Energy returns 0.5*M*u*u, ApplyElementMatrix writes the vector
\* (M*u) and CalcLinearizedElementMatrix writes the matrix ((M)).
C9_ScenarioB ==
  ScenarioB =>
    /\ lastop = "Energy" =>
         ret = RMul(RHalf, RMul(TotalWeight, RMul(elx[0], elx[0])))
    /\ lastop = "ApplyElementMatrix" =>
         elvec = [j \in {0} |-> RMul(TotalWeight, elx[0])]
    /\ lastop = "CalcLinearizedElementMatrix" =>
         elmat = [a \in {0} |-> [b \in {0} |-> TotalWeight]]

\* C9 witness: Energy has returned in Scenario B for a dof value other than
\* 0 and 1 and a rule of more than one point whose weights are not all 1.
C9_Witness ==
  /\ ScenarioB
  /\ lastop = "Energy"
  /\ elx[0] \notin {RZero, ROne}
  /\ Len0(mir) > 1
  /\ TotalWeight # RInt(Len0(mir))

\* Scenario A: the volume bilinear form integrator of u*v on the element
\* with one dof and identity operators, over a rule of one point
ScenarioA ==
  /\ integ.kind = "bfi"
  /\ ~integ.element_boundary
  /\ cf = <<"uv", 0>>
  /\ fel = "one"
  /\ Len0(mir) = 1
  /\ lastop = "CalcElementMatrix"

\* C10: in Scenario A, with M the weight of the point, CalcElementMatrix
\* raises nothing and writes the matrix ((M)).
C10_ScenarioA ==
  ScenarioA =>
    /\ ~thrown
    /\ elmat = [a \in {0} |-> [b \in {0} |-> RInt(mir[0].w)]]

\* C10 witness: CalcElementMatrix has returned in Scenario A for a point of
\* a weight other than 1.
C10_Witness ==
  /\ ScenarioA
  /\ mir[0].w > 1


(***************************************************************************)
(* Concurrent calls.  Two workers run integrator calls at the same time,   *)
(* each on its own element, rule and dof vector.  A call is split at the   *)
(* points where it touches the userdata slot of its ElementTransformation  *)
(* or its ProxyUserData: the attachment at the start of the call, the      *)
(* seeding of one component, one evaluation of a proxy inside cf, and the  *)
(* return, which ends the lifetime of the ProxyUserData on the stack.      *)
(* A pointer to a ProxyUserData is the worker on whose stack it lives.     *)
(***************************************************************************)
Workers == {"w1", "w2"}
WorkerElement(w) == IF w = "w1" THEN 0 ELSE 1
Trafos == {"trafo1", "trafo2"}
ConcKinds == {"CalcElementMatrix", "ApplyElementMatrix", "CalcLinearizedElementMatrix"}
ConcElement == "cmp"
ConcRule(w) == MkRule(1, WorkerElement(w))
ConcElx(w) == MkElx(ConcElement, WorkerElement(w))
Dead == [call |-> 0]
IdleCall == [pc |-> "idle", kind |-> "none", step |-> 0, n |-> 0]

\* the pairs of components a call seeds, in the order of its loops
ConcSeeds(kind) ==
  IF kind = "CalcElementMatrix"
  THEN << << <<"u1", 0>>, <<"v1", 0>> >>, << <<"u2", 1>>, <<"v2", 0>> >> >>
  ELSE IF kind = "ApplyElementMatrix"
  THEN << << <<"u1", 0>> >>, << <<"u2", 1>> >> >>
  ELSE << << <<"u1", 0>>, <<"u1", 0>> >>, << <<"u2", 1>>, <<"u2", 1>> >> >>

\* the ProxyUserData a call creates before its loops
ConcContext(kind, w) ==
  IF kind = "CalcElementMatrix"
  THEN NewProxyUserData
  ELSE IF kind = "ApplyElementMatrix"
  THEN Pinned(NewProxyUserData, ConcElement, ConcElx(w))
  ELSE Remembered(Pinned(NewProxyUserData, ConcElement, ConcElx(w)),
                  ConcElement, ConcRule(w), ConcElx(w))

\* ud after the assignments at the head of the innermost loop
ConcSeeded(kind, ud, sd) ==
  IF kind = "CalcElementMatrix" THEN SeedTest(SeedTrial(ud, sd[1]), sd[2])
  ELSE IF kind = "ApplyElementMatrix" THEN SeedTrial(ud, sd[1])
  ELSE SeedTest(SeedTrial(ud, sd[1]), sd[2])

\* the proxy evaluation cf performs in a call of this kind
ConcEvaluate(kind, this, udp, r) ==
  IF kind = "CalcElementMatrix" THEN ProxyEvaluate(this, udp, r[0])
  ELSE IF kind = "ApplyElementMatrix" THEN ProxyEvaluateDeriv(this, udp, r)
  ELSE ProxyEvaluateDDeriv(this, udp, r)

\* the slot a call of worker w attaches to, and the proxies it evaluates
\* read: the userdata member of the worker's ElementTransformation
SlotOf_ProcessWide(w) == "trafo1"
SlotOf(w) == wtrafo[w]

\* what the memory of a ProxyUserData whose call has returned may hold
DeadFrameReads ==
  {NewProxyUserData, SeedTrial(NewProxyUserData, <<"u2", 1>>)}

\* the ProxyUserData objects a read through the pointer ptr may see
Deref(ptr) ==
  IF ptr = NullPtr THEN {[call |-> 0, udp |-> << >>]}
  ELSE IF frames[ptr] = Dead
  THEN {[call |-> 0, udp |-> <<g>>] : g \in DeadFrameReads}
  ELSE {[call |-> frames[ptr].call, udp |-> <<frames[ptr].ud>>]}

ConcInit ==
  /\ fel = ConcElement
  /\ mir = ConcRule("w1")
  /\ elx = ConcElx("w1")
  /\ ProxyIdle
  /\ SeqIdle
  /\ wtrafo \in [Workers -> Trafos]
  /\ slots = [t \in Trafos |-> NullPtr]
  /\ frames = [w \in Workers |-> Dead]
  /\ wcall = [w \in Workers |-> IdleCall]
  /\ wread = [w \in Workers |-> NoCall]

\* ProxyUserData ud; trafo.userdata = &ud; and the pinning that follows
StartCall(w) ==
  /\ wcall[w].pc = "idle"
  /\ wcall[w].n < MaxCalls
  /\ \E kind \in ConcKinds :
       /\ wcall' = [wcall EXCEPT ![w] = [pc |-> "loop", kind |-> kind, step |-> 0,
                                         n |-> wcall[w].n + 1]]
       /\ frames' = [frames EXCEPT ![w] = [call |-> wcall[w].n + 1,
                                           ud |-> ConcContext(kind, w)]]
  /\ slots' = [slots EXCEPT ![SlotOf(w)] = w]
  /\ UNCHANGED <<wtrafo, wread, inputs, ctx, pcall, seqvars>>

\* ud.trialfunction = ...; ud.trial_comp = ...; (ud.testfunction, ud.test_comp)
SeedComponent(w) ==
  /\ wcall[w].pc = "loop"
  /\ wcall[w].step < Len(ConcSeeds(wcall[w].kind))
  /\ frames' = [frames EXCEPT ![w].ud =
                  ConcSeeded(wcall[w].kind, frames[w].ud,
                             ConcSeeds(wcall[w].kind)[wcall[w].step + 1])]
  /\ wcall' = [wcall EXCEPT ![w].pc = "seeded"]
  /\ UNCHANGED <<wtrafo, slots, wread, inputs, ctx, pcall, seqvars>>

\* cf->Evaluate... reaches a proxy, which reads the userdata of the
\* transformation of its points
EvaluateProxy(w) ==
  /\ wcall[w].pc = "seeded"
  /\ \E this \in TrialProxies, seen \in Deref(slots[SlotOf(w)]) :
       wread' = [wread EXCEPT ![w] =
                   [fn |-> wcall[w].kind, this |-> this, ptr |-> slots[SlotOf(w)],
                    call |-> wcall[w].n, readcall |-> seen.call,
                    out |-> ConcEvaluate(wcall[w].kind, this, seen.udp, ConcRule(w)),
                    own |-> ConcEvaluate(wcall[w].kind, this, <<frames[w].ud>>,
                                         ConcRule(w))]]
  /\ wcall' = [wcall EXCEPT ![w].pc = "loop", ![w].step = wcall[w].step + 1]
  /\ UNCHANGED <<wtrafo, slots, frames, inputs, ctx, pcall, seqvars>>

\* the end of the function: ud goes out of scope, userdata is left as it is
ReturnCall(w) ==
  /\ wcall[w].pc = "loop"
  /\ wcall[w].step = Len(ConcSeeds(wcall[w].kind))
  /\ frames' = [frames EXCEPT ![w] = Dead]
  /\ wcall' = [wcall EXCEPT ![w].pc = "idle"]
  /\ UNCHANGED <<wtrafo, slots, wread, inputs, ctx, pcall, seqvars>>

ConcNext ==
  \E w \in Workers :
    StartCall(w) \/ SeedComponent(w) \/ EvaluateProxy(w) \/ ReturnCall(w)

SpecConc == ConcInit /\ [][ConcNext]_vars

(***************************************************************************)
(* Properties of concurrent calls (SpecConc)                               *)
(***************************************************************************)
Evaluated(w) == wread[w].fn # "none"

\* C7: when the workers use different ElementTransformation objects, every
\* proxy evaluation inside a call reads, through the userdata slot, the
\* ProxyUserData that this very call created (the pointer is to the worker's
\* own stack, the object is the one of the current call, and the values the
\* proxy produces are those of the call's own seeds, pinned element, dofs and
\* remembered matrices), whatever the interleaving of the two calls.
C7_OwnTrafoIsolation ==
  (wtrafo["w1"] # wtrafo["w2"]) =>
    \A w \in Workers :
      Evaluated(w) => /\ wread[w].ptr = w
                      /\ wread[w].readcall = wread[w].call
                      /\ wread[w].out = wread[w].own

\* both workers are inside a call on transformations of their own, their
\* contexts differ, and worker 1 has evaluated a proxy in its current call
C7_Witness ==
  /\ wtrafo["w1"] # wtrafo["w2"]
  /\ wcall["w1"].pc # "idle" /\ wcall["w2"].pc # "idle"
  /\ frames["w1"].ud # frames["w2"].ud
  /\ Evaluated("w1") /\ wread["w1"].call = wcall["w1"].n
  /\ wread["w1"].ptr = "w1"
  /\ ~wread["w1"].out.thrown

\* with one shared transformation a proxy evaluation of one call reads the
\* context of the other call, or the dead context of a call that returned,
\* and produces other values than with its own context
SharedTrafoInterference ==
  /\ wtrafo["w1"] = wtrafo["w2"]
  /\ \E w \in Workers :
       Evaluated(w) /\ wread[w].ptr # w /\ wread[w].out # wread[w].own
NoSharedTrafoInterference == ~SharedTrafoInterference


\* ---------------------------------------------------------------------
\* Properties of the bilinear-form integrator (SpecBilinear)

\* The element matrix a bilinear-form integrator of integrand c computes on
\* the inputs of the current state
MatrixOf(c) ==
  T_CalcElementMatrix(
    SymbolicBilinearFormIntegrator(c, integ.element_boundary).obj,
    trafo, fel, mir, userdata, elmat)

MatrixCallReturned ==
  lastop = "CalcElementMatrix" /\ ~thrown /\ integ.kind = "bfi"

\* C11: with the same element, rule and evaluators, the element matrix of the
\* integrand cf1 + cf2 is the sum of the element matrices of cf1 and of cf2
\* (in exact arithmetic).
C11_Superposition ==
  (MatrixCallReturned /\ cf[1] = "sum")
    => LET m1 == MatrixOf(SumParts[cf[2]][1])
           m2 == MatrixOf(SumParts[cf[2]][2])
       IN  /\ ~m1.thrown /\ ~m2.thrown
           /\ elmat = MatAdd(m1.elmat, m2.elmat)

C11_Witness ==
  /\ MatrixCallReturned /\ cf[1] = "sum" /\ fel = "cmp" /\ Len0(mir) = MaxPoints
  /\ ~AllZero(MatrixOf(SumParts[cf[2]][1]).elmat)
  /\ ~AllZero(MatrixOf(SumParts[cf[2]][2]).elmat)
  /\ MatrixOf(SumParts[cf[2]][1]).elmat # MatrixOf(SumParts[cf[2]][2]).elmat

\* The test proxy bound to the same differential operator as a trial proxy
Partner(proxy) ==
  CHOOSE q \in TestProxies : Evaluator(q) = Evaluator(proxy)

\* The integrand c is invariant under swapping test and trial functions at
\* the point mip: seeding (trial a.k, test partner(b).l) and seeding
\* (trial b.l, test partner(a).k) give the same value
SwapInvariantAt(c, mip) ==
  \A a \in TrialProxies, b \in TrialProxies :
    \A k \in 0..(Dimension(a) - 1), l \in 0..(Dimension(b) - 1) :
      CfEvaluate(Tree(c),
                 <<SeedTest(SeedTrial(NewProxyUserData, <<a, k>>),
                            <<Partner(b), l>>)>>, mip)
      = CfEvaluate(Tree(c),
                   <<SeedTest(SeedTrial(NewProxyUserData, <<b, l>>),
                              <<Partner(a), k>>)>>, mip)

SwapInvariant(c) == \A i \in DOMAIN mir : SwapInvariantAt(c, mir[i])

\* C12: for an integrand that is invariant under swapping test and trial
\* functions, the element matrix written by CalcElementMatrix is symmetric
\* (in exact arithmetic).
C12_SymmetricMatrix ==
  (MatrixCallReturned /\ SwapInvariant(cf))
    => \A i \in DOMAIN elmat : \A j \in DOMAIN elmat : elmat[i][j] = elmat[j][i]

C12_Witness ==
  /\ MatrixCallReturned /\ SwapInvariant(cf) /\ cf[1] = "sym"
  /\ fel = "cmp" /\ ~integ.element_boundary
  /\ \E i \in DOMAIN elmat : \E j \in DOMAIN elmat : i # j /\ elmat[i][j] # RZero

\* Every reordering of a collected proxy list
Reorderings(list) ==
  {[n \in 1..Len(list) |-> list[p[n]]] : p \in Permutations(1..Len(list))}

\* C13: the element matrix of CalcElementMatrix and of
\* CalcLinearizedElementMatrix does not depend on the order in which the
\* proxy pairs are processed: with the collected proxy lists reordered in any
\* way, the same call on the same inputs gives the matrix that was returned
\* (in exact arithmetic).
C13_PairOrderIndependence ==
  /\ (lastop = "CalcElementMatrix" /\ ~thrown)
       => \A trial \in Reorderings(integ.trial_proxies) :
            \A test \in Reorderings(integ.test_proxies) :
              T_CalcElementMatrix(
                [integ EXCEPT !.trial_proxies = trial, !.test_proxies = test],
                trafo, fel, mir, userdata, elmat).elmat = elmat
  /\ (lastop = "CalcLinearizedElementMatrix" /\ ~thrown)
       => \A trial \in Reorderings(integ.trial_proxies) :
            CalcLinearizedElementMatrix(
              [integ EXCEPT !.trial_proxies = trial], fel, mir, elx).elmat = elmat

C13_Witness ==
  /\ lastop \in {"CalcElementMatrix", "CalcLinearizedElementMatrix"}
  /\ ~thrown /\ fel = "cmp" /\ Len0(mir) = MaxPoints
  /\ Len(integ.trial_proxies) = 2
  /\ integ.kind = "bfi" => Len(integ.test_proxies) = 2
  /\ \E i \in DOMAIN elmat : \E j \in DOMAIN elmat : i # j /\ elmat[i][j] # RZero

\* ---------------------------------------------------------------------
\* Properties of the linear-form integrator

\* The proxies T_CalcElementVector seeds as test function and maps through
\* ApplyTrans: every element of the member proxies, in its order
SeededAsTest(i) == {i.proxies[n] : n \in 1..Len(i.proxies)}

\* The proxy nodes of the expression tree that are test functions
TestProxiesOfTree(c) ==
  LET nodes == TraverseTree(Tree(c))
  IN  {nodes[n].p : n \in {m \in 1..Len(nodes) :
                              nodes[m].t = "proxy" /\ IsTestFunction(nodes[m].p)}}

\* C14: the proxy list of a linear-form integrator holds exactly the distinct
\* test proxies of the expression tree, each once, so that CalcElementVector
\* seeds as test and maps through ApplyTrans no trial proxy.
C14_CollectsOnlyTestProxies ==
  integ.kind = "lfi"
    => /\ SeededAsTest(integ) = TestProxiesOfTree(integ.cf)
       /\ Cardinality(SeededAsTest(integ)) = Len(integ.proxies)

\* ---------------------------------------------------------------------
\* Properties of the output buffers

\* The entry points that write the caller's elmat or elvec
OutputCallNames ==
  {"CalcElementVector", "CalcElementMatrix", "CalcLinearizedElementMatrix",
   "ApplyElementMatrix"}

\* C15: every entry point zeroes the caller's output before it accumulates,
\* so the output does not depend on what the buffer held before: the same
\* operation called again on the same inputs, now on the buffer that holds
\* the first result instead of the caller's initial contents, returns the
\* same output.
C15_OutputIndependentOfBuffer ==
  [][(lastop \in OutputCallNames /\ lastop' = lastop /\ ncalls' = ncalls + 1
        /\ ~thrown /\ ~thrown')
       => (elmat' = elmat /\ elvec' = elvec)]_vars

C15_Witness ==
  /\ ncalls = 2 /\ ~thrown /\ fel = "cmp"
  /\ \/ integ.kind = "bfi" /\ lastop = "CalcElementMatrix"
        /\ ~AllZero(elmat) /\ elmat # InitialMat(fel)
     \/ integ.kind = "lfi" /\ lastop = "CalcElementVector"
        /\ elvec # ZeroVec(NDof(fel)) /\ elvec # InitialVec(fel)

\* ---------------------------------------------------------------------
\* Properties of the element-boundary dispatch (SpecBilinear)

\* C16: a call of CalcElementMatrix on an element-boundary integrator with a
\* space dimension other than 1, 2, 3 throws, leaving trafo.userdata and
\* elmat as they were before the call; with dimension 1, 2 or 3 the outcome
\* is that of the boundary assembly T_CalcElementMatrixEB of that dimension.
C16_BoundaryDispatch ==
  [][(integ.kind = "bfi" /\ integ.element_boundary
        /\ lastop' = "CalcElementMatrix" /\ ncalls' = ncalls + 1)
       => IF trafo.SpaceDim \in {1, 2, 3}
          THEN LET eb == T_CalcElementMatrixEB(integ, trafo.SpaceDim, fel, mir)
               IN  /\ elmat' = eb.elmat
                   /\ thrown' = eb.thrown
                   /\ userdata' = eb.userdata
          ELSE thrown' /\ userdata' = userdata /\ elmat' = elmat]_vars

C16_Witness ==
  /\ integ.kind = "bfi" /\ integ.element_boundary
  /\ lastop = "CalcElementMatrix" /\ ncalls = 1
  /\ trafo.SpaceDim \notin {1, 2, 3}
  /\ thrown /\ userdata = NullPtr /\ elmat = InitialMat(fel)

\* ---------------------------------------------------------------------
\* Properties of the cross pass of CalcLinearizedElementMatrix

LinearizedReturned ==
  lastop = "CalcLinearizedElementMatrix" /\ ~thrown /\ integ.kind = "energy"

\* cf->EvaluateDDeriv at the points of the rule with trial = (p1, k) and
\* test = (p2, l) seeded together in the context of the call
Combined(p1, k, p2, l) ==
  SeededDDeriv(integ, LinearizedContext(integ, fel, mir, elx), mir,
               <<p1, k>>, <<p2, l>>)

\* The coefficients the claim describes for the seeds (p1, k) and (p2, l),
\* one per point of the rule, before the weighting
CrossPassCoefficients(p1, k, p2, l) ==
  LET combined == Combined(p1, k, p2, l)
      d1 == Combined(p1, k, p1, k)
      d2 == Combined(p2, l, p2, l)
  IN  [i \in DOMAIN mir |->
         IF p1 = p2 /\ k = l
         THEN combined[i]
         ELSE RMul(RHalf, RSub(RSub(combined[i], d1[i]), d2[i]))]

\* the one at point i
CrossPassCoefficient(p1, k, p2, l, i) == CrossPassCoefficients(p1, k, p2, l)[i]

\* C17: after CalcLinearizedElementMatrix the coefficient of every ordered
\* pair of trial proxies (proxy1, proxy2), components (k, l) and point i is
\* the weight of the point times: the raw combined second derivative when
\* (proxy1,k) = (proxy2,l), else 0.5*(combined - diagonal[proxy1,k] -
\* diagonal[proxy2,l]) with each diagonal the complete value of the diagonal
\* pass (the single component seeded as test and trial).
C17_CrossPassPolarization ==
  LinearizedReturned
    => LET np == Len(integ.trial_proxies)
       IN  \A k1 \in 1..np, l1 \in 1..np :
             LET proxy1 == integ.trial_proxies[k1]
                 proxy2 == integ.trial_proxies[l1]
                 pv == proxyvalues[(k1 - 1) * np + l1]
             IN  \A l \in 0..(Dimension(proxy2) - 1) :
                   \A k \in 0..(Dimension(proxy1) - 1) :
                     LET coefficient == CrossPassCoefficients(proxy1, k, proxy2, l)
                     IN  \A i \in DOMAIN mir :
                           pv[i][l][k] = RMul(coefficient[i], RInt(mir[i].w))

C17_Witness ==
  /\ LinearizedReturned /\ Len(integ.trial_proxies) = 2 /\ Len0(mir) = MaxPoints
  /\ \E i \in DOMAIN mir :
        /\ Combined("u1", 0, "u2", 0)[i] # RZero
        /\ Combined("u1", 0, "u1", 0)[i] # RZero
        /\ Combined("u2", 0, "u2", 0)[i] # RZero
        /\ CrossPassCoefficient("u1", 0, "u2", 0, i) # RZero
        /\ CrossPassCoefficient("u1", 0, "u2", 0, i) # Combined("u1", 0, "u2", 0)[i]

\* ---------------------------------------------------------------------
\* Properties of the contraction of one pair (SpecContract)

\* The pair a contraction step has processed
Proxy1(i) == i.trial_proxies[1]
Proxy2(i) == i.test_proxies[1]

\* Entry (a, b) of Trans(B_test(p)) * tensor(p) * B_trial(p) at the point p
PointProductEntry(proxy1, proxy2, pv, el, r, p, a, b) ==
  LET bmat1 == CalcMatrix(Evaluator(proxy1), el, r[p])
      bmat2 == CalcMatrix(Evaluator(proxy2), el, r[p])
  IN  RSum([l \in 0..(Dimension(proxy2) - 1) |->
              RMul(bmat2[l][a],
                   RSum([k \in 0..(Dimension(proxy1) - 1) |->
                           RMul(pv[p][l][k], bmat1[k][b])],
                        0, Dimension(proxy1) - 1))],
           0, Dimension(proxy2) - 1)

\* The unblocked sum over all points of the rule
UnblockedSum(proxy1, proxy2, pv, el, r) ==
  [a \in 0..(NDof(el) - 1) |->
     [b \in 0..(NDof(el) - 1) |->
        RSum([p \in DOMAIN r |->
                PointProductEntry(proxy1, proxy2, pv, el, r, p, a, b)],
             0, Len0(r) - 1)]]

BlockSizes == {1, 3, BS, 3 * BS}

\* C18: the blocked contraction of the volume and the linearized routine
\* adds to elmat the unblocked sum over all points 0..n-1 of
\* Trans(B_test(p)) * tensor(p) * B_trial(p), each point once, for rules of
\* size 0, below BS, a multiple of BS and otherwise; the same loops with any
\* other block size give the same matrix.
C18_BlockedEqualsUnblocked ==
  [][(lastop = "none" /\ lastop' \in {"ContractVolume", "ContractLinearized"})
       => /\ elmat' = MatAdd(elmat,
                             UnblockedSum(Proxy1(integ'), Proxy2(integ'),
                                          proxyvalues', fel, mir))
          /\ \A bs \in BlockSizes :
                ContractBS(bs, elmat, Proxy1(integ'), Proxy2(integ'),
                           proxyvalues', fel, mir, 0) = elmat']_vars

C18_Witness ==
  /\ lastop \in {"ContractVolume", "ContractLinearized"}
  /\ Len0(mir) = MaxBlocks * BS + 1 /\ fel = "cmp"
  /\ Evaluator(Proxy1(integ)) = "vec" /\ Evaluator(Proxy2(integ)) = "vec"
  /\ ~AllZero(elmat) /\ elmat # InitialMat(fel)
  /\ ~AllZero(UnblockedSum(Proxy1(integ), Proxy2(integ), proxyvalues, fel, mir))

\* Entry (a, b) lies in the block of the pair: row a in the used dofs of the
\* test operator, column b in the used dofs of the trial operator
InFrame(i, el, a, b) ==
  /\ InRange(a, UsedDofs(Evaluator(Proxy2(i)), el))
  /\ InRange(b, UsedDofs(Evaluator(Proxy1(i)), el))

\* C19: processing one proxy pair, in the volume, the element-boundary and
\* the linearized routine, changes only the entries of elmat whose row lies
\* in the used-dof range of the second (test) operator and whose column lies
\* in the used-dof range of the first (trial) operator.
C19_PairWritesOwnBlock ==
  [][(lastop = "none"
        /\ lastop' \in {"ContractVolume", "ContractLinearized", "ContractBoundary"})
       => \A a \in DOMAIN elmat : \A b \in DOMAIN elmat[a] :
            ~InFrame(integ', fel, a, b) => elmat'[a][b] = elmat[a][b]]_vars

C19_Witness ==
  /\ lastop \in {"ContractLinearized", "ContractBoundary"}
  /\ fel = "cmp"
  /\ Evaluator(Proxy1(integ)) = "id" /\ Evaluator(Proxy2(integ)) = "vec"
  /\ ~InFrame(integ, fel, 0, 2) /\ InFrame(integ, fel, 1, 1)
  /\ elmat[0][2] = InitialMat(fel)[0][2] /\ elmat[0][2] # RZero
  /\ elmat[1][1] # InitialMat(fel)[1][1]

\* C20: with the same weighted tensor, the same pair and the same basis
\* matrices, the contraction of CalcLinearizedElementMatrix gives the matrix
\* the volume contraction of T_CalcElementMatrix gives (which is restricted
\* to the used-dof ranges), and conversely.
C20_SameContraction ==
  [][/\ (lastop = "none" /\ lastop' = "ContractLinearized")
          => elmat' = Contract(elmat, Proxy1(integ'), Proxy2(integ'),
                               proxyvalues', fel, mir, 0)
     /\ (lastop = "none" /\ lastop' = "ContractVolume")
          => elmat' = ContractFull(elmat, Proxy1(integ'), Proxy2(integ'),
                                   proxyvalues', fel, mir, 0)]_vars

C20_Witness ==
  /\ lastop = "ContractLinearized" /\ fel = "cmp" /\ Len0(mir) = BS + 1
  /\ Proxy1(integ) = "u1" /\ Proxy2(integ) = "u2"
  /\ elmat[0][2] = InitialMat(fel)[0][2] /\ elmat[0][2] # RZero
  /\ elmat[1][1] # InitialMat(fel)[1][1]

\* ---------------------------------------------------------------------
\* Properties of the quadrature weighting

\* Entry [a][b] of the sum of the matrices mats[1..n]
SumOfMatrices(mats, n, el) ==
  [a \in 0..(NDof(el) - 1) |->
     [b \in 0..(NDof(el) - 1) |->
        RSum([m \in 1..n |-> mats[m][a][b]], 1, n)]]

\* The sample values of the pair (proxy1, proxy2) of a bilinear-form
\* integrator, each multiplied once by the weight of its point
BilinearSamplesWeightedOnce(proxy1, proxy2) ==
  [i \in DOMAIN mir |->
     [l \in 0..(Dimension(proxy2) - 1) |->
        [k \in 0..(Dimension(proxy1) - 1) |->
           RMul(RInt(mir[i].w),
                CfEvaluate(Tree(integ.cf),
                           <<SeedTest(SeedTrial(NewProxyUserData, <<proxy1, k>>),
                                      <<proxy2, l>>)>>,
                           mir[i]))]]]

\* The polarized coefficients of the pair (proxy1, proxy2) of the energy
\* integrator, each multiplied once by the weight of its point
LinearizedSamplesWeightedOnce(proxy1, proxy2) ==
  LET coefficients == Stored([l \in 0..(Dimension(proxy2) - 1) |->
                                [k \in 0..(Dimension(proxy1) - 1) |->
                                   CrossPassCoefficients(proxy1, k, proxy2, l)]])
  IN  [i \in DOMAIN mir |->
         [l \in 0..(Dimension(proxy2) - 1) |->
            [k \in 0..(Dimension(proxy1) - 1) |->
               RMul(RInt(mir[i].w), coefficients[l][k][i])]]]

\* Entry j of the linear form: every sample value of every proxy and
\* component times the weight of its point, once, times the basis value
LinearFormEntryWeightedOnce(j) ==
  RSum([n \in 1..Len(integ.proxies) |->
          LET proxy == integ.proxies[n]
          IN  RSum([i \in DOMAIN mir |->
                      RSum([k \in 0..(Dimension(proxy) - 1) |->
                              RMul(CalcMatrix(Evaluator(proxy), fel, mir[i])[k][j],
                                   RMul(RInt(mir[i].w),
                                        CfEvaluate(Tree(integ.cf),
                                                   <<SeedTest(NewProxyUserData,
                                                              <<proxy, k>>)>>,
                                                   mir[i])))],
                           0, Dimension(proxy) - 1)],
                   0, Len0(mir) - 1)],
       1, Len(integ.proxies))

\* C21: in the linear-form, the bilinear-form (volume) and the linearized
\* energy routine every sample value enters the output multiplied by the
\* weight of its point exactly once: the output is the contraction of the
\* once-weighted values (for the Hessian, of the once-weighted polarized
\* coefficients) with the basis matrices.
C21_WeightedExactlyOnce ==
  /\ (lastop = "CalcElementVector" /\ ~thrown)
       => \A j \in DOMAIN elvec : elvec[j] = LinearFormEntryWeightedOnce(j)
  /\ (lastop = "CalcElementMatrix" /\ ~thrown /\ ~integ.element_boundary)
       => elmat = SumOfMatrices(
                    [n \in 1..NPairs(integ) |->
                       UnblockedSum(PairAt(integ, n)[1], PairAt(integ, n)[2],
                                    BilinearSamplesWeightedOnce(PairAt(integ, n)[1],
                                                                PairAt(integ, n)[2]),
                                    fel, mir)],
                    NPairs(integ), fel)
  /\ LinearizedReturned
       => LET np == Len(integ.trial_proxies)
              p1(n) == integ.trial_proxies[((n - 1) \div np) + 1]
              p2(n) == integ.trial_proxies[((n - 1) % np) + 1]
          IN  /\ \A n \in 1..(np * np) :
                    proxyvalues[n] = LinearizedSamplesWeightedOnce(p1(n), p2(n))
              /\ elmat = SumOfMatrices(
                           [n \in 1..(np * np) |->
                              UnblockedSum(p1(n), p2(n), proxyvalues[n], fel, mir)],
                           np * np, fel)

C21_Witness ==
  /\ lastop \in {"CalcElementVector", "CalcElementMatrix",
                  "CalcLinearizedElementMatrix"}
  /\ ~thrown /\ ~integ.element_boundary /\ fel = "cmp"
  /\ Len0(mir) = MaxPoints
  /\ \E i \in DOMAIN mir : mir[i].w > 1
  /\ lastop = "CalcElementVector" => elvec # ZeroVec(NDof(fel))
  /\ lastop # "CalcElementVector" => ~AllZero(elmat)

\* ---------------------------------------------------------------------
\* Properties of the evaluations a call issues (SpecLoops)

\* cf is being evaluated by the call op: the seeds have been assigned
Evaluating(op) == lastop = op /\ pcall.fn \notin {"none", "enter"}

\* the evaluations of the call in progress
CurrentEvaluations == EvaluationsOf(lastop, integ, trafo, fel, mir, elx)

ComponentsOf(list) ==
  {<<list[n], c>> : n \in 1..Len(list), c \in 0..1}
    \cap {sd \in Proxies \X (0..1) : sd[2] < Dimension(sd[1])}

\* C22: at every evaluation of the bilinear volume and element-boundary
\* assembly the context holds one trial seed, a collected trial proxy and a
\* component k below its dimension, and one test seed, a collected test
\* proxy and a component l below its dimension; the value of the evaluation
\* is the one stored at [point, l, k] of the pair's tensor; and every
\* combination of a pair, k and l is evaluated exactly once per rule
\* (per facet point on the boundary).
C22_OneSeedPairPerEvaluation ==
  Evaluating("CalcElementMatrix")
    => LET ud == ctx[1]
           s1 == <<ud.trialfunction, ud.trial_comp>>
           s2 == <<ud.testfunction, ud.test_comp>>
           evs == CurrentEvaluations
       IN  /\ s1 \in ComponentsOf(integ.trial_proxies)
           /\ s2 \in ComponentsOf(integ.test_proxies)
           /\ pcall.trial = s1 /\ pcall.test = s2
           /\ IF integ.element_boundary
              THEN LET mip == FacetRule(mir, pcall.facet)[pcall.point]
                       len == SurfaceMeasure(trafo.SpaceDim, pcall.facet)
                   IN  EBProxyValues(integ, s1[1], s2[1], mip, len)[s2[2]][s1[2]]
                       = RMul(RMul(RInt(mip.w), len),
                              CfEvaluate(Tree(integ.cf), ctx, mip))
              ELSE LET raw == BFIProxyValuesRaw(integ, s1[1], s2[1], mir)
                   IN  \A i \in DOMAIN mir :
                         raw[i][s2[2]][s1[2]] = CfEvaluate(Tree(integ.cf), ctx, mir[i])
           /\ Cardinality({<<evs[e].trial, evs[e].test, evs[e].facet, evs[e].point>> :
                             e \in 1..Len(evs)}) = Len(evs)
           /\ \A c1 \in ComponentsOf(integ.trial_proxies) :
                \A c2 \in ComponentsOf(integ.test_proxies) :
                  \E e \in 1..Len(evs) :
                    /\ evs[e].trial = c1 /\ evs[e].test = c2
                    /\ evs[e].facet = pcall.facet /\ evs[e].point = pcall.point

C22_Witness ==
  /\ Evaluating("CalcElementMatrix") /\ integ.element_boundary
  /\ cf = <<"mix", 0>> /\ fel = "cmp"
  /\ pcall.trial = <<"u2", 1>> /\ pcall.test = <<"v2", 1>>
  /\ pcall.facet = GetNFacets(trafo.SpaceDim) - 1 /\ pcall.point = MaxPoints - 1
  /\ CfEvaluate(Tree(integ.cf), ctx, FacetRule(mir, pcall.facet)[pcall.point]) # RZero

\* ---------------------------------------------------------------------
\* Properties of the collected proxy lists

\* The proxy objects met by the traversal of the tree, in the order of the
\* visits, an object once for each path that reaches it
ProxyVisits(c) ==
  LET nodes == SelectSeq(TraverseTree(Tree(c)), LAMBDA nd : nd.t = "proxy")
  IN  [n \in 1..Len(nodes) |-> nodes[n].p]

\* The proxies of the set q in the order of their first visit, each once
FirstVisits(c, q) ==
  LET ps == ProxyVisits(c)
      first == {i \in 1..Len(ps) : ps[i] \in q /\ \A j \in 1..(i - 1) : ps[j] # ps[i]}
  IN  [n \in 1..Cardinality(first) |->
         ps[CHOOSE i \in first : Cardinality({j \in first : j <= i}) = n]]

ElementsOf(list) == {list[n] : n \in 1..Len(list)}

\* C23: the proxy lists of a constructed integrator hold every qualifying
\* proxy object of the tree exactly once, in the order of the first visits,
\* however many paths reach the object: all proxies for the linear form, the
\* non-test proxies (trial list) and the test proxies (test list) for the
\* bilinear form, whose two lists are disjoint and together hold every proxy
\* of the tree, and exactly the non-test proxies for the energy.
C23_ListsAreFirstVisits ==
  /\ integ.kind = "lfi" => integ.proxies = FirstVisits(integ.cf, Proxies)
  /\ integ.kind = "bfi"
       => /\ integ.trial_proxies = FirstVisits(integ.cf, TrialProxies)
          /\ integ.test_proxies = FirstVisits(integ.cf, TestProxies)
          /\ ElementsOf(integ.trial_proxies) \cap ElementsOf(integ.test_proxies) = {}
          /\ ElementsOf(integ.trial_proxies) \cup ElementsOf(integ.test_proxies)
               = ElementsOf(ProxyVisits(integ.cf))
  /\ integ.kind = "energy"
       => /\ integ.trial_proxies = FirstVisits(integ.cf, TrialProxies)
          /\ ElementsOf(integ.trial_proxies)
               = ElementsOf(ProxyVisits(integ.cf)) \cap TrialProxies

C23_Witness ==
  /\ integ.kind \in {"bfi", "energy"}
  /\ Len(integ.trial_proxies) = 2
  /\ Len(ProxyVisits(integ.cf)) > Cardinality(ElementsOf(ProxyVisits(integ.cf)))
  /\ ElementsOf(ProxyVisits(integ.cf)) \cap TestProxies # {}

\* ---------------------------------------------------------------------
\* C24: the scratch arena is used in strict LIFO scopes: when CalcElementVector,
\* CalcElementMatrix, CalcLinearizedElementMatrix, ApplyElementMatrix or Energy
\* has returned, the level of the LocalHeap is the level at entry, so that it
\* does not grow with the number of pairs or with repeated calls.
C24_ArenaLevelRestored ==
  lastop \in {"CalcElementVector", "CalcElementMatrix",
              "CalcLinearizedElementMatrix", "ApplyElementMatrix", "Energy"}
    => lh = 0

\* ---------------------------------------------------------------------
\* the derivative columns of one trial proxy: column k is the derivative with
\* component k of the proxy as the only seed, each row scaled by its weight
WeightedDerivativeColumns(proxy) ==
  [i \in DOMAIN mir |->
     [k \in 0..(Dimension(proxy) - 1) |->
        RMul(RInt(mir[i].w),
             CfEvaluateDeriv(Tree(integ.cf),
                             <<[NewProxyUserData EXCEPT
                                  !.fel = fel, !.elx = elx, !.lh = "lh",
                                  !.trialfunction = proxy, !.trial_comp = k]>>,
                             mir).deriv[i])]]

\* C25: during ApplyElementMatrix the element and the dof vector stay pinned,
\* no test seed is active, and every evaluation is an EvaluateDeriv under one
\* seed, a component of a collected trial proxy, whose derivative is the
\* column of that component; at the return the output vector is the sum over
\* the trial proxies of ApplyTrans of the proxy's weighted derivative columns.
C25_ApplySeedsOneTrialComponent ==
  /\ Evaluating("ApplyElementMatrix")
       => LET ud == ctx[1]
              sd == <<ud.trialfunction, ud.trial_comp>>
          IN  /\ ud.fel = fel /\ ud.elx = elx
              /\ ud.testfunction = NullPtr
              /\ pcall.fn = "EvaluateDeriv"
              /\ sd \in ComponentsOf(integ.trial_proxies)
              /\ pcall.trial = sd /\ pcall.test = NoSeed
              /\ \A i \in DOMAIN mir :
                    RMul(RInt(mir[i].w),
                         CfEvaluateDeriv(Tree(integ.cf), ctx, mir).deriv[i])
                    = WeightedDerivativeColumns(sd[1])[i][sd[2]]
              /\ \A c \in ComponentsOf(integ.trial_proxies) :
                    Cardinality({e \in 1..Len(CurrentEvaluations) :
                                   CurrentEvaluations[e].trial = c}) = 1
  /\ (lastop = "ApplyElementMatrix" /\ pcall.fn = "none")
       => \A j \in 0..(NDof(fel) - 1) :
            elvec[j] = RSum([n \in 1..Len(integ.trial_proxies) |->
                               ApplyTrans(Evaluator(integ.trial_proxies[n]), fel, mir,
                                          WeightedDerivativeColumns(integ.trial_proxies[n]))[j]],
                            1, Len(integ.trial_proxies))

C25_Witness ==
  /\ lastop = "ApplyElementMatrix" /\ pcall.fn = "none"
  /\ Len(integ.trial_proxies) = 2
  /\ Len0(mir) = MaxPoints
  /\ \A j \in 0..(NDof(fel) - 1) : elvec[j] # RZero
  /\ elvec # InitialVec(fel)

\* ---------------------------------------------------------------------
\* the contribution of one facet point to entry (a, b): over the pairs and
\* their components, weight times surface measure times the coefficient
\* times the two shape values
FacetPointEntry(k, i, a, b) ==
  LET mip == FacetRule(mir, k)[i]
      scale == RMul(RInt(mip.w), SurfaceMeasure(trafo.SpaceDim, k))
  IN  RSum([n \in 1..NPairs(integ) |->
        LET proxy1 == PairAt(integ, n)[1]
            proxy2 == PairAt(integ, n)[2]
            d1 == Dimension(proxy1)
            d2 == Dimension(proxy2)
        IN  RSum([e \in 0..(d1 * d2 - 1) |->
                    LET ud == [NewProxyUserData EXCEPT
                                 !.trialfunction = proxy1, !.trial_comp = e \div d2,
                                 !.testfunction = proxy2, !.test_comp = e % d2]
                    IN  RMul(RMul(scale, CfEvaluate(Tree(integ.cf), <<ud>>, mip)),
                             RMul(CalcMatrix(Evaluator(proxy2), fel, mip)[e % d2][a],
                                  CalcMatrix(Evaluator(proxy1), fel, mip)[e \div d2][b]))],
                 0, d1 * d2 - 1)],
           1, NPairs(integ))

\* C26: in the element-boundary assembly every evaluation runs at a point
\* whose normal vector has been set, the outward unit normal of its facet;
\* every coefficient is scaled by the facet weight times the surface measure;
\* and the output is the sum of the contributions of all the facets and all
\* their points, whatever the buffer held at entry.
C26_BoundarySum ==
  /\ (Evaluating("CalcElementMatrix") /\ integ.element_boundary)
       => /\ pcall.nv = GetNormals(trafo.SpaceDim, pcall.facet)
          /\ RSum([a \in DOMAIN pcall.nv |-> RMul(pcall.nv[a], pcall.nv[a])],
                  0, Len0(pcall.nv) - 1) = ROne
  /\ (lastop = "CalcElementMatrix" /\ pcall.fn = "none" /\ integ.element_boundary)
       => \A a \in 0..(NDof(fel) - 1), b \in 0..(NDof(fel) - 1) :
            elmat[a][b]
            = RSum([m \in 0..(GetNFacets(trafo.SpaceDim) * Len0(mir) - 1) |->
                      FacetPointEntry(m \div Len0(mir), m % Len0(mir), a, b)],
                   0, GetNFacets(trafo.SpaceDim) * Len0(mir) - 1)

C26_Witness ==
  /\ lastop = "CalcElementMatrix" /\ pcall.fn = "none" /\ integ.element_boundary
  /\ ncalls = 2
  /\ cf = <<"mix", 0>> /\ fel = "cmp"
  /\ Len0(mir) = MaxPoints
  /\ ~AllZero(elmat)
  /\ SurfaceMeasure(trafo.SpaceDim, 0) # SurfaceMeasure(trafo.SpaceDim, 2)

\* ---------------------------------------------------------------------
\* C27: in CalcLinearizedElementMatrix, from before the first EvaluateDDeriv
\* to the last one, ud.remember holds an entry for every trial proxy and for
\* nothing else, each entry the proxy's operator applied to the pinned dof
\* vector at every point of the rule, and EvaluateDDeriv of a trial proxy
\* returns the value it would compute without the cache; in every other
\* entry point the cache is empty.
C27_MemoCache ==
  pcall.fn # "none"
    => IF lastop = "CalcLinearizedElementMatrix"
       THEN LET ud == ctx[1]
            IN  /\ ud.fel = fel /\ ud.elx = elx
                /\ DOMAIN ud.remember = ElementsOf(integ.trial_proxies)
                /\ \A p \in DOMAIN ud.remember :
                      /\ DOMAIN ud.remember[p] = DOMAIN mir
                      /\ \A i \in DOMAIN mir :
                            ud.remember[p][i] = Apply(Evaluator(p), fel, mir[i], elx)
                      /\ ProxyEvaluateDDeriv(p, ctx, mir).result
                         = ProxyEvaluateDDeriv(p, <<[ud EXCEPT !.remember = << >>]>>,
                                               mir).result
       ELSE ctx[1].remember = << >>

C27_Witness ==
  /\ Evaluating("CalcLinearizedElementMatrix")
  /\ pcall.pass = "cross"
  /\ pcall.trial[1] # pcall.test[1]
  /\ Len0(mir) = MaxPoints
  /\ \A p \in DOMAIN ctx[1].remember : ~AllZero(ctx[1].remember[p])

\* ---------------------------------------------------------------------
\* the directional second derivative of the call depends only on the set of
\* seeded components: exchanging the trial and the test seed does not
\* change it
DDerivDependsOnSeedSetOnly ==
  LET ud == LinearizedContext(integ, fel, mir, elx)
  IN  \A s1 \in ComponentsOf(integ.trial_proxies) :
        \A s2 \in ComponentsOf(integ.trial_proxies) :
          SeededDDeriv(integ, ud, mir, s1, s2) = SeededDDeriv(integ, ud, mir, s2, s1)

\* C28: after CalcLinearizedElementMatrix, whenever the directional second
\* derivative depends only on the set of seeded components, the tensor of the
\* pair (proxy1, proxy2) at [point, l, k] equals the tensor of the pair
\* (proxy2, proxy1) at [point, k, l], for all proxies, components and points,
\* and the tangent matrix is symmetric.
C28_TensorSymmetricAcrossPairs ==
  (LinearizedReturned /\ DDerivDependsOnSeedSetOnly)
    => LET np == Len(integ.trial_proxies)
       IN  /\ \A k1 \in 1..np, l1 \in 1..np :
                 \A i \in DOMAIN mir :
                   \A k \in 0..(Dimension(integ.trial_proxies[k1]) - 1) :
                     \A l \in 0..(Dimension(integ.trial_proxies[l1]) - 1) :
                       proxyvalues[(k1 - 1) * np + l1][i][l][k]
                       = proxyvalues[(l1 - 1) * np + k1][i][k][l]
           /\ \A a \in 0..(NDof(fel) - 1), b \in 0..(NDof(fel) - 1) :
                 elmat[a][b] = elmat[b][a]

C28_Witness ==
  /\ LinearizedReturned /\ DDerivDependsOnSeedSetOnly
  /\ Len(integ.trial_proxies) = 2
  /\ Len0(mir) = MaxPoints
  /\ \E i \in DOMAIN mir :
        \E k \in 0..(Dimension(integ.trial_proxies[1]) - 1) :
          \E l \in 0..(Dimension(integ.trial_proxies[2]) - 1) :
            proxyvalues[2][i][l][k] # RZero
  /\ \E a \in 0..(NDof(fel) - 1), b \in 0..(NDof(fel) - 1) :
        a # b /\ elmat[a][b] # RZero

\* ---------------------------------------------------------------------
RECURSIVE ProductOf(_)
ProductOf(dims) == IF dims = << >> THEN 1 ELSE Head(dims) * ProductOf(Tail(dims))

\* C29 as stated: the product of the entries Dimensions returns equals the
\* operator's Dim() for every Dim and every BlockDim >= 1.
C29_ProductIsDim ==
  pcall.fn = "Dimensions" => ProductOf(pcall.out) = pcall.this.Dim

\* C29: Dimensions returns [Dim] when BlockDim is 1 and otherwise two
\* entries, the integer quotient of Dim by BlockDim and BlockDim; the product
\* of the entries is Dim less the remainder of that division, so it equals
\* Dim exactly when BlockDim divides Dim.
C29_ProductIsDimLessRemainder ==
  pcall.fn = "Dimensions"
    => LET dim == pcall.this.Dim
           blockdim == pcall.this.BlockDim
           out == pcall.out
       IN  /\ blockdim = 1 => out = <<dim>>
           /\ blockdim # 1
                => /\ Len(out) = 2
                   /\ out[2] = blockdim
                   /\ out[1] * blockdim <= dim
                   /\ dim < (out[1] + 1) * blockdim
           /\ ProductOf(out) = dim - (dim % blockdim)
           /\ ProductOf(out) = dim <=> dim % blockdim = 0

C29_Witness ==
  /\ pcall.fn = "Dimensions"
  /\ pcall.this = [Dim |-> 5, BlockDim |-> 2]
  /\ pcall.out = <<2, 2>>

\* ---------------------------------------------------------------------
\* entry (i, j) of the product A * B of the call
ProductEntry(i, j) ==
  RSum([k \in 0..(pcall.n - 1) |-> RMul(pcall.A[i][k], pcall.B[k][j])],
       0, pcall.n - 1)

\* what the operation tag of the call stands for
TagEntry(i, j) ==
  CASE pcall.op = "ADD" -> RAdd(pcall.C[i][j], ProductEntry(i, j))
    [] pcall.op = "SUB" -> RSub(pcall.C[i][j], ProductEntry(i, j))
    [] pcall.op = "SET" -> ProductEntry(i, j)
    [] pcall.op = "SETNEG" -> RNeg(ProductEntry(i, j))

KernelImplementsTag ==
  \A i \in 0..(pcall.h - 1), j \in 0..(pcall.w - 1) : pcall.out[i][j] = TagEntry(i, j)

\* C30: every emitted kernel implements its operation tag: after a call of a
\* kernel specialised for ADD the buffer holds C + A*B, for SUB C - A*B, for
\* SET A*B and for SETNEG -A*B, C being the content before the call.
C30_KernelImplementsTag ==
  pcall.fn = "returned" => KernelImplementsTag

====
